---- MODULE Spec2Model ----
(***************************************************************************)
(* Gateway node-invocation broker: the NodeRegistry of                     *)
(* src/gateway/node-registry.ts as a state machine.                        *)
(*                                                                         *)
(* JavaScript values are encoded uniformly so that TLC can compare them:   *)
(*   - strings that are identifiers are TLA+ strings;                      *)
(*   - a byte buffer is a sequence of integers 0..255, a decoded string a  *)
(*     sequence of code points; the values null and undefined of a         *)
(*     payloadJSON field are the one-element sequences NullJSON and        *)
(*     UndefinedJSON;                                                      *)
(*   - an error object is a record [code, message]; null and undefined     *)
(*     are NullError and UndefinedError.                                   *)
(***************************************************************************)
EXTENDS Integers, Sequences, FiniteSets, TLC

\* ------------------------------------------------------------------ bounds

\* Number of request ids invoke may allocate in one behaviour.
MaxInvokes == 2
\* Per-transfer cap handed to every start call (limits.maxInvokeResultBytes).
MaxInvokeResultBytes == 2
\* Global cap handed to every start call (limits.maxInflightBytes).
MaxInflightBytes == 3
\* Largest chunkCount a start frame declares.
MaxChunkCount == 2

NodeIds == {"node-1", "node-2"}
ConnIds == {"conn-1", "conn-2"}
ObservedConnIds == {"conn-1"}
Commands == {"system.run"}
RequestIds == 1..MaxInvokes

\* totalBytes a start frame can declare: the registry checks no lower bound,
\* so a negative declaration is an input like any other; the one taken here
\* is larger in size than the global cap.
NegativeTotalBytes == 0 - (MaxInflightBytes + 1)
TotalBytesValues == {NegativeTotalBytes} \cup (1..(MaxInvokeResultBytes + 1))
ChunkCountValues == 0..MaxChunkCount
ChunkBytesValues == {1}
ChunkIndexValues == 0..(MaxChunkCount - 1)
ChunkLengthValues == {1, 2}

\* --------------------------------------------------------------- JS values

NullJSON == <<0 - 1>>
UndefinedJSON == <<0 - 2>>
NullError == [code |-> "null", message |-> "null"]
UndefinedError == [code |-> "undefined", message |-> "undefined"]

\* x ?? null
NullishJSON(x) == IF x = UndefinedJSON THEN NullJSON ELSE x
NullishError(e) == IF e = UndefinedError THEN NullError ELSE e

Max(a, b) == IF a >= b THEN a ELSE b

\* Map helpers: a Map whose iteration order is immaterial is a function.
MapSet(m, k, v) == [x \in (DOMAIN m) \cup {k} |-> IF x = k THEN v ELSE m[x]]
MapDelete(m, k) == [x \in (DOMAIN m) \ {k} |-> m[x]]
EmptyMap == [x \in {} |-> 0]

VARIABLES
  nodesById,        \* Map nodeId -> NodeSession [nodeId, connId]
  nodesByConn,      \* Map connId -> nodeId
  pendingInvokes,   \* Map requestId -> PendingInvoke [nodeId, command]
  invokeTransfers,  \* Map requestId -> PendingInvokeTransfer, in insertion order
  inflightBytes,    \* number
  timers,           \* request ids whose setTimeout is armed
  settled,          \* per request id, the calls made on its resolve / reject
  nextRequestId,    \* the next fresh request id (randomUUID)
  observing,        \* whether this behaviour records its operations in lastOp
  lastOp            \* history: the last public operation and what it returned

vars == <<nodesById, nodesByConn, pendingInvokes, invokeTransfers, inflightBytes,
          timers, settled, nextRequestId, observing, lastOp>>

\* The part of the registry the invoke / transfer operations read and write.
Cur == [pendingInvokes |-> pendingInvokes, invokeTransfers |-> invokeTransfers,
        inflightBytes |-> inflightBytes, timers |-> timers, settled |-> settled]

Commit(st) ==
  /\ pendingInvokes' = st.pendingInvokes
  /\ invokeTransfers' = st.invokeTransfers
  /\ inflightBytes' = st.inflightBytes
  /\ timers' = st.timers
  /\ settled' = st.settled

OpRecord(op, id, nodeId, connId, ret) ==
  [op |-> op, id |-> id, nodeId |-> nodeId, connId |-> connId, ret |-> ret]

\* An observed behaviour keeps the last operation and its return value.
Op(op, id, nodeId, connId, ret) ==
  IF observing THEN OpRecord(op, id, nodeId, connId, ret) ELSE lastOp

\* ------------------------------------------------------ NodeInvokeResult

Resolved(ok, payload, payloadJSON, error) ==
  [kind |-> "resolve", ok |-> ok, payload |-> payload,
   payloadJSON |-> payloadJSON, error |-> error]

\* pending.reject(new Error(...)): the promise is rejected with an Error, which
\* carries a message and no code.
Rejected(message) ==
  [kind |-> "reject", ok |-> FALSE, payload |-> "undefined",
   payloadJSON |-> UndefinedJSON, error |-> [code |-> "undefined", message |-> message]]

Settle(st, id, outcome) ==
  [st EXCEPT !.settled = [st.settled EXCEPT ![id] = Append(@, outcome)]]

\* ------------------------------------------------------------- transfers

TransferIds(tr) == {tr[i].id : i \in 1..Len(tr)}
TransferOf(tr, id) == tr[CHOOSE i \in 1..Len(tr) : tr[i].id = id]
TransferRemove(tr, id) == SelectSeq(tr, LAMBDA t : t.id # id)

ClearInvokeTransfer(st, id) ==
  IF id \notin TransferIds(st.invokeTransfers) THEN st
  ELSE [st EXCEPT
          !.invokeTransfers = TransferRemove(@, id),
          !.inflightBytes =
             Max(0, @ - TransferOf(st.invokeTransfers, id).totalBytes)]

\* Direct replies a node can send (node.invoke.result, direct form).
AppError == [code |-> "APP_ERROR", message |-> "failed"]
ResultFrames ==
  [id : RequestIds, nodeId : NodeIds, ok : {TRUE}, payload : {"undefined"},
   payloadJSON : {<<123, 125>>}, error : {UndefinedError}]
  \cup
  [id : RequestIds, nodeId : NodeIds, ok : {FALSE}, payload : {"undefined"},
   payloadJSON : {UndefinedJSON}, error : {AppError}]

Constructed ==
  /\ nodesById = EmptyMap
  /\ nodesByConn = EmptyMap
  /\ pendingInvokes = EmptyMap
  /\ invokeTransfers = <<>>
  /\ inflightBytes = 0
  /\ timers = {}
  /\ settled = [id \in RequestIds |-> <<>>]
  /\ nextRequestId = 1
  /\ lastOp = OpRecord("new", 0, "-", "-", "-")

\* ------------------------------------------------------------- register

Register(connId, nodeId) ==
  /\ nodesById' = MapSet(nodesById, nodeId, [nodeId |-> nodeId, connId |-> connId])
  /\ nodesByConn' = MapSet(nodesByConn, connId, nodeId)
  /\ lastOp' = Op("register", 0, nodeId, connId, nodeId)
  /\ UNCHANGED <<pendingInvokes, invokeTransfers, inflightBytes, timers, settled,
                 nextRequestId, observing>>

\* get(nodeId): the session, or NoSession for undefined.
NoSession == [nodeId |-> "undefined", connId |-> "undefined"]
SessionOf(byId, nodeId) == IF nodeId \in DOMAIN byId THEN byId[nodeId] ELSE NoSession
Get(nodeId) == SessionOf(nodesById, nodeId)

\* ----------------------------------------------------------- unregister

DisconnectMessage(command) ==
  CASE command = "system.run" -> "node disconnected (system.run)"

\* The first loop of unregister without its clearTimeout(pending.timer).
RejectPendingOf_KeepsTimers(st, nodeId) ==
  LET ids == {id \in DOMAIN st.pendingInvokes : st.pendingInvokes[id].nodeId = nodeId}
  IN [st EXCEPT
        !.settled = [id \in RequestIds |->
                       IF id \in ids
                       THEN Append(@[id], Rejected(DisconnectMessage(
                                                     st.pendingInvokes[id].command)))
                       ELSE @[id]],
        !.pendingInvokes = [id \in (DOMAIN @) \ ids |-> @[id]]]

\* The first loop of unregister: every pending invoke of the node has its timer
\* cleared, its promise rejected and its entry deleted.
RejectPendingOf(st, nodeId) ==
  LET ids == {id \in DOMAIN st.pendingInvokes : st.pendingInvokes[id].nodeId = nodeId}
  IN [st EXCEPT
        !.timers = @ \ ids,
        !.settled = [id \in RequestIds |->
                       IF id \in ids
                       THEN Append(@[id], Rejected(DisconnectMessage(
                                                     st.pendingInvokes[id].command)))
                       ELSE @[id]],
        !.pendingInvokes = [id \in (DOMAIN @) \ ids |-> @[id]]]

\* The second loop of unregister: the node's transfers are cleared in the
\* Map's iteration order; entries is the part of the Map not yet visited.
RECURSIVE ClearTransfersOf(_, _, _)
ClearTransfersOf(st, entries, nodeId) ==
  IF entries = <<>> THEN st
  ELSE ClearTransfersOf(
         IF Head(entries).nodeId = nodeId
         THEN ClearInvokeTransfer(st, Head(entries).id) ELSE st,
         Tail(entries), nodeId)

\* unregister without its nodesById.delete(nodeId).
Unregister_KeepsSession(connId) ==
  IF connId \notin DOMAIN nodesByConn
  THEN /\ lastOp' = Op("unregister", 0, "-", connId, "null")
       /\ UNCHANGED <<nodesById, nodesByConn, pendingInvokes, invokeTransfers,
                      inflightBytes, timers, settled, nextRequestId, observing>>
  ELSE LET nodeId == nodesByConn[connId]
           st1 == RejectPendingOf(Cur, nodeId)
           st2 == ClearTransfersOf(st1, st1.invokeTransfers, nodeId)
       IN /\ nodesByConn' = MapDelete(nodesByConn, connId)
          /\ nodesById' = nodesById
          /\ Commit(st2)
          /\ lastOp' = Op("unregister", 0, nodeId, connId, nodeId)
          /\ UNCHANGED <<nextRequestId, observing>>

Unregister(connId) ==
  IF connId \notin DOMAIN nodesByConn
  THEN /\ lastOp' = Op("unregister", 0, "-", connId, "null")
       /\ UNCHANGED <<nodesById, nodesByConn, pendingInvokes, invokeTransfers,
                      inflightBytes, timers, settled, nextRequestId, observing>>
  ELSE LET nodeId == nodesByConn[connId]
           st1 == RejectPendingOf(Cur, nodeId)
           st2 == ClearTransfersOf(st1, st1.invokeTransfers, nodeId)
       IN /\ nodesByConn' = MapDelete(nodesByConn, connId)
          /\ nodesById' = MapDelete(nodesById, nodeId)
          /\ Commit(st2)
          /\ lastOp' = Op("unregister", 0, nodeId, connId, nodeId)
          /\ UNCHANGED <<nextRequestId, observing>>

\* --------------------------------------------------------------- invoke

NotConnectedError == [code |-> "NOT_CONNECTED", message |-> "node not connected"]
SendFailedError == [code |-> "UNAVAILABLE", message |-> "failed to send invoke to node"]

\* The record of an invoke that returned a failure at once: no request id is
\* kept for it.
InvokeFailed(nodeId, error) ==
  IF observing
  THEN [op |-> "invoke", id |-> 0, nodeId |-> nodeId, connId |-> "-",
        ret |-> error.code, message |-> error.message]
  ELSE lastOp

\* invoke that enters the PendingInvoke and arms the timer before it sends the
\* request frame, and leaves them when the send fails.
Invoke_RegistersFirst(nodeId, command, sendOk) ==
  IF nodeId \notin DOMAIN nodesById
  THEN /\ lastOp' = InvokeFailed(nodeId, NotConnectedError)
       /\ UNCHANGED <<nodesById, nodesByConn, pendingInvokes, invokeTransfers,
                      inflightBytes, timers, settled, nextRequestId, observing>>
  ELSE /\ nextRequestId <= MaxInvokes
       /\ timers' = timers \cup {nextRequestId}
       /\ pendingInvokes' = MapSet(pendingInvokes, nextRequestId,
                                   [nodeId |-> nodeId, command |-> command])
       /\ nextRequestId' = nextRequestId + 1
       /\ lastOp' = IF sendOk THEN Op("invoke", nextRequestId, nodeId, "-", "pending")
                    ELSE InvokeFailed(nodeId, SendFailedError)
       /\ UNCHANGED <<nodesById, nodesByConn, invokeTransfers, inflightBytes,
                      settled, observing>>

\* sendOk: whether socket.send of the request frame returned (TRUE) or raised.
Invoke(nodeId, command, sendOk) ==
  IF nodeId \notin DOMAIN nodesById
  THEN /\ lastOp' = InvokeFailed(nodeId, NotConnectedError)
       /\ UNCHANGED <<nodesById, nodesByConn, pendingInvokes, invokeTransfers,
                      inflightBytes, timers, settled, nextRequestId, observing>>
  ELSE IF ~sendOk
  THEN /\ lastOp' = InvokeFailed(nodeId, SendFailedError)
       /\ UNCHANGED <<nodesById, nodesByConn, pendingInvokes, invokeTransfers,
                      inflightBytes, timers, settled, nextRequestId, observing>>
  ELSE /\ nextRequestId <= MaxInvokes
       /\ timers' = timers \cup {nextRequestId}
       /\ pendingInvokes' = MapSet(pendingInvokes, nextRequestId,
                                   [nodeId |-> nodeId, command |-> command])
       /\ nextRequestId' = nextRequestId + 1
       /\ lastOp' = Op("invoke", nextRequestId, nodeId, "-", "pending")
       /\ UNCHANGED <<nodesById, nodesByConn, invokeTransfers, inflightBytes,
                      settled, observing>>

TimeoutError == [code |-> "TIMEOUT", message |-> "node invoke timed out"]

\* The setTimeout callback without its clearInvokeTransfer(requestId).
TimerFire_KeepsTransfer(id) ==
  /\ id \in timers
  /\ LET st1 == [Cur EXCEPT !.timers = @ \ {id},
                            !.pendingInvokes = MapDelete(@, id)]
         st2 == st1
         st3 == Settle(st2, id, Resolved(FALSE, "undefined", UndefinedJSON, TimeoutError))
     IN Commit(st3)
  /\ lastOp' = Op("timeout", id, "-", "-", "-")
  /\ UNCHANGED <<nodesById, nodesByConn, nextRequestId, observing>>

\* The setTimeout callback of invoke, run for a timer that is still armed.
TimerFire(id) ==
  /\ id \in timers
  /\ LET st1 == [Cur EXCEPT !.timers = @ \ {id},
                            !.pendingInvokes = MapDelete(@, id)]
         st2 == ClearInvokeTransfer(st1, id)
         st3 == Settle(st2, id, Resolved(FALSE, "undefined", UndefinedJSON, TimeoutError))
     IN Commit(st3)
  /\ lastOp' = Op("timeout", id, "-", "-", "-")
  /\ UNCHANGED <<nodesById, nodesByConn, nextRequestId, observing>>

\* ---------------------------------------------------- handleInvokeResult

\* handleInvokeResult without its clearTimeout(pending.timer).
HandleInvokeResult_KeepsTimer(st, p) ==
  IF p.id \notin DOMAIN st.pendingInvokes THEN [st |-> st, ret |-> FALSE]
  ELSE IF st.pendingInvokes[p.id].nodeId # p.nodeId THEN [st |-> st, ret |-> FALSE]
  ELSE LET st1 == [st EXCEPT !.pendingInvokes = MapDelete(@, p.id)]
           st2 == ClearInvokeTransfer(st1, p.id)
           st3 == Settle(st2, p.id,
                         Resolved(p.ok, p.payload, NullishJSON(p.payloadJSON),
                                  NullishError(p.error)))
       IN [st |-> st3, ret |-> TRUE]

\* handleInvokeResult reporting a frame as handled when its id has no
\* PendingInvoke.
HandleInvokeResult_AcksUnknown(st, p) ==
  IF p.id \notin DOMAIN st.pendingInvokes THEN [st |-> st, ret |-> TRUE]
  ELSE IF st.pendingInvokes[p.id].nodeId # p.nodeId THEN [st |-> st, ret |-> FALSE]
  ELSE LET st1 == [st EXCEPT !.timers = @ \ {p.id},
                             !.pendingInvokes = MapDelete(@, p.id)]
           st2 == ClearInvokeTransfer(st1, p.id)
           st3 == Settle(st2, p.id,
                         Resolved(p.ok, p.payload, NullishJSON(p.payloadJSON),
                                  NullishError(p.error)))
       IN [st |-> st3, ret |-> TRUE]

\* handleInvokeResult without its comparison of pending.nodeId with
\* params.nodeId.
HandleInvokeResult_AnyNode(st, p) ==
  IF p.id \notin DOMAIN st.pendingInvokes THEN [st |-> st, ret |-> FALSE]
  ELSE LET st1 == [st EXCEPT !.timers = @ \ {p.id},
                             !.pendingInvokes = MapDelete(@, p.id)]
           st2 == ClearInvokeTransfer(st1, p.id)
           st3 == Settle(st2, p.id,
                         Resolved(p.ok, p.payload, NullishJSON(p.payloadJSON),
                                  NullishError(p.error)))
       IN [st |-> st3, ret |-> TRUE]

HandleInvokeResult(st, p) ==
  IF p.id \notin DOMAIN st.pendingInvokes THEN [st |-> st, ret |-> FALSE]
  ELSE IF st.pendingInvokes[p.id].nodeId # p.nodeId THEN [st |-> st, ret |-> FALSE]
  ELSE LET st1 == [st EXCEPT !.timers = @ \ {p.id},
                             !.pendingInvokes = MapDelete(@, p.id)]
           st2 == ClearInvokeTransfer(st1, p.id)
           st3 == Settle(st2, p.id,
                         Resolved(p.ok, p.payload, NullishJSON(p.payloadJSON),
                                  NullishError(p.error)))
       IN [st |-> st3, ret |-> TRUE]

\* resolveInvokeError passing the message on under the code UNAVAILABLE.
ResolveInvokeError_OtherCode(st, id, nodeId, error) ==
  HandleInvokeResult(st, [id |-> id, nodeId |-> nodeId, ok |-> FALSE,
                          payload |-> "undefined", payloadJSON |-> UndefinedJSON,
                          error |-> [error EXCEPT !.code = "UNAVAILABLE"]]).st

ResolveInvokeError(st, id, nodeId, error) ==
  HandleInvokeResult(st, [id |-> id, nodeId |-> nodeId, ok |-> FALSE,
                          payload |-> "undefined", payloadJSON |-> UndefinedJSON,
                          error |-> error]).st

BoolStr(b) == IF b THEN "true" ELSE "false"

HandleInvokeResultFrame(p) ==
  LET r == HandleInvokeResult(Cur, p)
  IN /\ Commit(r.st)
     /\ lastOp' = Op("handleInvokeResult", p.id, p.nodeId, "-", BoolStr(r.ret))
     /\ UNCHANGED <<nodesById, nodesByConn, nextRequestId, observing>>

\* ------------------------------------------------------- codec helpers

\* Buffer.from(data, "base64"): data is the sequence of its sextets (the values
\* 0..63 of its base64 characters, padding dropped); every 4 sextets give 3
\* bytes, a trailing 2 or 3 sextets give 1 or 2 bytes, a trailing 1 gives none.
RECURSIVE Base64Decode(_)
Base64Decode(s) ==
  LET b0 == s[1] * 4 + (s[2] \div 16)
      b1 == (s[2] % 16) * 16 + (s[3] \div 4)
      b2 == (s[3] % 4) * 64 + s[4]
  IN IF Len(s) < 2 THEN <<>>
     ELSE IF Len(s) = 2 THEN <<b0>>
     ELSE IF Len(s) = 3 THEN <<b0, b1>>
     ELSE <<b0, b1, b2>> \o Base64Decode(SubSeq(s, 5, Len(s)))

\* A hex digest string is modelled by the message it is the SHA-256 of (the
\* hash is taken to be collision free) and by the case of its letters.
Sha256Hex(bytes) == [of |-> bytes, upper |-> FALSE]
ToLowerCase(digest) == [digest EXCEPT !.upper = FALSE]

RECURSIVE ConcatAll(_)
ConcatAll(chunks) ==
  IF chunks = <<>> THEN <<>> ELSE Head(chunks) \o ConcatAll(Tail(chunks))

\* Buffer.concat(list, totalLength): the concatenation cut or zero-filled to
\* totalLength bytes.
BufferConcat(chunks, totalLength) ==
  LET all == ConcatAll(chunks)
  IN [i \in 1..Max(0, totalLength) |-> IF i <= Len(all) THEN all[i] ELSE 0]

\* buffer.toString("utf8") for buffers of ASCII bytes and bytes that start no
\* UTF-8 sequence: the latter decode to U+FFFD each.
Utf8ToString(bytes) ==
  [i \in 1..Len(bytes) |-> IF bytes[i] < 128 THEN bytes[i] ELSE 65533]

\* ---------------------------------------------- startInvokeResultTransfer

InvalidRequest(message) == [code |-> "INVALID_REQUEST", message |-> message]

\* The message an InvokeTransferResult carries with each reason.
FailureMessage(reason) ==
  CASE reason = "unknown-invoke-id" -> "unknown invoke id"
    [] reason = "chunk-out-of-order" -> "chunk out of order"
    [] reason = "payload-too-large" -> "payload too large"
    [] reason = "chunk-bytes-mismatch" -> "chunk bytes mismatch"
    [] reason = "hash-mismatch" -> "hash mismatch"

\* startInvokeResultTransfer comparing totalBytes with maxInvokeResultBytes
\* before it looks for a transfer of the id.
StartInvokeResultTransfer_SizeFirst(st, p) ==
  IF \/ p.id \notin DOMAIN st.pendingInvokes
     \/ st.pendingInvokes[p.id].nodeId # p.nodeId
  THEN [st |-> st, ret |-> "unknown-invoke-id"]
  ELSE IF p.totalBytes > p.maxInvokeResultBytes
  THEN [st |-> ResolveInvokeError(st, p.id, p.nodeId, InvalidRequest("payload too large")),
        ret |-> "payload-too-large"]
  ELSE IF p.id \in TransferIds(st.invokeTransfers)
  THEN [st |-> ResolveInvokeError(st, p.id, p.nodeId, InvalidRequest("chunk out of order")),
        ret |-> "chunk-out-of-order"]
  ELSE IF st.inflightBytes + p.totalBytes > p.maxInflightBytes
  THEN [st |-> ResolveInvokeError(st, p.id, p.nodeId, InvalidRequest("payload too large")),
        ret |-> "payload-too-large"]
  ELSE [st |-> [st EXCEPT
                  !.inflightBytes = @ + p.totalBytes,
                  !.invokeTransfers =
                     Append(@, [id |-> p.id, nodeId |-> p.nodeId,
                                totalBytes |-> p.totalBytes,
                                chunkBytes |-> p.chunkBytes,
                                chunkCount |-> p.chunkCount,
                                nextIndex |-> 0, bytesReceived |-> 0,
                                sha256 |-> ToLowerCase(p.sha256),
                                chunks |-> <<>>])],
        ret |-> "ok"]

\* startInvokeResultTransfer adding totalBytes to inflightBytes before it
\* compares the sum with maxInflightBytes.
StartInvokeResultTransfer_CountsFirst(st, p) ==
  IF \/ p.id \notin DOMAIN st.pendingInvokes
     \/ st.pendingInvokes[p.id].nodeId # p.nodeId
  THEN [st |-> st, ret |-> "unknown-invoke-id"]
  ELSE IF p.id \in TransferIds(st.invokeTransfers)
  THEN [st |-> ResolveInvokeError(st, p.id, p.nodeId, InvalidRequest("chunk out of order")),
        ret |-> "chunk-out-of-order"]
  ELSE IF p.totalBytes > p.maxInvokeResultBytes
  THEN [st |-> ResolveInvokeError(st, p.id, p.nodeId, InvalidRequest("payload too large")),
        ret |-> "payload-too-large"]
  ELSE IF st.inflightBytes + p.totalBytes > p.maxInflightBytes
  THEN [st |-> ResolveInvokeError([st EXCEPT !.inflightBytes = @ + p.totalBytes],
                                  p.id, p.nodeId, InvalidRequest("payload too large")),
        ret |-> "payload-too-large"]
  ELSE [st |-> [st EXCEPT
                  !.inflightBytes = @ + p.totalBytes,
                  !.invokeTransfers =
                     Append(@, [id |-> p.id, nodeId |-> p.nodeId,
                                totalBytes |-> p.totalBytes,
                                chunkBytes |-> p.chunkBytes,
                                chunkCount |-> p.chunkCount,
                                nextIndex |-> 0, bytesReceived |-> 0,
                                sha256 |-> ToLowerCase(p.sha256),
                                chunks |-> <<>>])],
        ret |-> "ok"]

StartInvokeResultTransfer(st, p) ==
  IF \/ p.id \notin DOMAIN st.pendingInvokes
     \/ st.pendingInvokes[p.id].nodeId # p.nodeId
  THEN [st |-> st, ret |-> "unknown-invoke-id"]
  ELSE IF p.id \in TransferIds(st.invokeTransfers)
  THEN [st |-> ResolveInvokeError(st, p.id, p.nodeId, InvalidRequest("chunk out of order")),
        ret |-> "chunk-out-of-order"]
  ELSE IF p.totalBytes > p.maxInvokeResultBytes
  THEN [st |-> ResolveInvokeError(st, p.id, p.nodeId, InvalidRequest("payload too large")),
        ret |-> "payload-too-large"]
  ELSE IF st.inflightBytes + p.totalBytes > p.maxInflightBytes
  THEN [st |-> ResolveInvokeError(st, p.id, p.nodeId, InvalidRequest("payload too large")),
        ret |-> "payload-too-large"]
  ELSE [st |-> [st EXCEPT
                  !.inflightBytes = @ + p.totalBytes,
                  !.invokeTransfers =
                     Append(@, [id |-> p.id, nodeId |-> p.nodeId,
                                totalBytes |-> p.totalBytes,
                                chunkBytes |-> p.chunkBytes,
                                chunkCount |-> p.chunkCount,
                                nextIndex |-> 0, bytesReceived |-> 0,
                                sha256 |-> ToLowerCase(p.sha256),
                                chunks |-> <<>>])],
        ret |-> "ok"]

StartFrame(p) ==
  LET r == StartInvokeResultTransfer(Cur, p)
  IN /\ Commit(r.st)
     /\ lastOp' = Op("startInvokeResultTransfer", p.id, p.nodeId, "-", r.ret)
     /\ UNCHANGED <<nodesById, nodesByConn, nextRequestId, observing>>

\* ------------------------------------------------ handleInvokeResultChunk

TransferUpdate(tr, id, t) == [i \in 1..Len(tr) |-> IF tr[i].id = id THEN t ELSE tr[i]]

\* handleInvokeResultChunk without its comparison of the digest with transfer.sha256.
HandleInvokeResultChunk_NoHashCheck(st, p) ==
  IF \/ p.id \notin TransferIds(st.invokeTransfers)
     \/ TransferOf(st.invokeTransfers, p.id).nodeId # p.nodeId
  THEN [st |-> IF /\ p.id \in DOMAIN st.pendingInvokes
                  /\ st.pendingInvokes[p.id].nodeId = p.nodeId
               THEN ResolveInvokeError(st, p.id, p.nodeId,
                                       InvalidRequest("unknown invoke id"))
               ELSE st,
        ret |-> "unknown-invoke-id"]
  ELSE
  LET transfer == TransferOf(st.invokeTransfers, p.id)
      decoded == Base64Decode(p.data)
      nextBytes == transfer.bytesReceived + Len(decoded)
      accepted == [transfer EXCEPT !.bytesReceived = nextBytes,
                                   !.nextIndex = @ + 1,
                                   !.chunks = Append(@, decoded)]
      st1 == [st EXCEPT !.invokeTransfers = TransferUpdate(@, p.id, accepted)]
      digest == ToLowerCase(Sha256Hex(ConcatAll(accepted.chunks)))
      payloadJSON == Utf8ToString(BufferConcat(accepted.chunks, accepted.totalBytes))
  IN
  IF p.index # transfer.nextIndex \/ p.index >= transfer.chunkCount
  THEN [st |-> ResolveInvokeError(st, p.id, p.nodeId, InvalidRequest("chunk out of order")),
        ret |-> "chunk-out-of-order"]
  ELSE IF Len(decoded) # p.bytes
  THEN [st |-> ResolveInvokeError(st, p.id, p.nodeId, InvalidRequest("chunk bytes mismatch")),
        ret |-> "chunk-bytes-mismatch"]
  ELSE IF nextBytes > transfer.totalBytes
  THEN [st |-> ResolveInvokeError(st, p.id, p.nodeId, InvalidRequest("chunk bytes mismatch")),
        ret |-> "chunk-bytes-mismatch"]
  ELSE IF accepted.nextIndex # accepted.chunkCount
  THEN [st |-> st1, ret |-> "ok"]
  ELSE IF accepted.bytesReceived # accepted.totalBytes
  THEN [st |-> ResolveInvokeError(st1, p.id, p.nodeId, InvalidRequest("chunk bytes mismatch")),
        ret |-> "chunk-bytes-mismatch"]
  ELSE [st |-> HandleInvokeResult(st1, [id |-> p.id, nodeId |-> p.nodeId, ok |-> TRUE,
                                        payload |-> "undefined",
                                        payloadJSON |-> payloadJSON,
                                        error |-> UndefinedError]).st,
        ret |-> "ok"]

\* handleInvokeResultChunk without its comparison of params.index with
\* transfer.nextIndex (the bound by chunkCount is kept).
HandleInvokeResultChunk_NoOrderCheck(st, p) ==
  IF \/ p.id \notin TransferIds(st.invokeTransfers)
     \/ TransferOf(st.invokeTransfers, p.id).nodeId # p.nodeId
  THEN [st |-> IF /\ p.id \in DOMAIN st.pendingInvokes
                  /\ st.pendingInvokes[p.id].nodeId = p.nodeId
               THEN ResolveInvokeError(st, p.id, p.nodeId,
                                       InvalidRequest("unknown invoke id"))
               ELSE st,
        ret |-> "unknown-invoke-id"]
  ELSE
  LET transfer == TransferOf(st.invokeTransfers, p.id)
      decoded == Base64Decode(p.data)
      nextBytes == transfer.bytesReceived + Len(decoded)
      accepted == [transfer EXCEPT !.bytesReceived = nextBytes,
                                   !.nextIndex = @ + 1,
                                   !.chunks = Append(@, decoded)]
      st1 == [st EXCEPT !.invokeTransfers = TransferUpdate(@, p.id, accepted)]
      digest == ToLowerCase(Sha256Hex(ConcatAll(accepted.chunks)))
      payloadJSON == Utf8ToString(BufferConcat(accepted.chunks, accepted.totalBytes))
  IN
  IF p.index >= transfer.chunkCount
  THEN [st |-> ResolveInvokeError(st, p.id, p.nodeId, InvalidRequest("chunk out of order")),
        ret |-> "chunk-out-of-order"]
  ELSE IF Len(decoded) # p.bytes
  THEN [st |-> ResolveInvokeError(st, p.id, p.nodeId, InvalidRequest("chunk bytes mismatch")),
        ret |-> "chunk-bytes-mismatch"]
  ELSE IF nextBytes > transfer.totalBytes
  THEN [st |-> ResolveInvokeError(st, p.id, p.nodeId, InvalidRequest("chunk bytes mismatch")),
        ret |-> "chunk-bytes-mismatch"]
  ELSE IF accepted.nextIndex # accepted.chunkCount
  THEN [st |-> st1, ret |-> "ok"]
  ELSE IF accepted.bytesReceived # accepted.totalBytes
  THEN [st |-> ResolveInvokeError(st1, p.id, p.nodeId, InvalidRequest("chunk bytes mismatch")),
        ret |-> "chunk-bytes-mismatch"]
  ELSE IF digest # accepted.sha256
  THEN [st |-> ResolveInvokeError(st1, p.id, p.nodeId, InvalidRequest("hash mismatch")),
        ret |-> "hash-mismatch"]
  ELSE [st |-> HandleInvokeResult(st1, [id |-> p.id, nodeId |-> p.nodeId, ok |-> TRUE,
                                        payload |-> "undefined",
                                        payloadJSON |-> payloadJSON,
                                        error |-> UndefinedError]).st,
        ret |-> "ok"]

HandleInvokeResultChunk(st, p) ==
  IF \/ p.id \notin TransferIds(st.invokeTransfers)
     \/ TransferOf(st.invokeTransfers, p.id).nodeId # p.nodeId
  THEN [st |-> IF /\ p.id \in DOMAIN st.pendingInvokes
                  /\ st.pendingInvokes[p.id].nodeId = p.nodeId
               THEN ResolveInvokeError(st, p.id, p.nodeId,
                                       InvalidRequest("unknown invoke id"))
               ELSE st,
        ret |-> "unknown-invoke-id"]
  ELSE
  LET transfer == TransferOf(st.invokeTransfers, p.id)
      decoded == Base64Decode(p.data)
      nextBytes == transfer.bytesReceived + Len(decoded)
      accepted == [transfer EXCEPT !.bytesReceived = nextBytes,
                                   !.nextIndex = @ + 1,
                                   !.chunks = Append(@, decoded)]
      st1 == [st EXCEPT !.invokeTransfers = TransferUpdate(@, p.id, accepted)]
      digest == ToLowerCase(Sha256Hex(ConcatAll(accepted.chunks)))
      payloadJSON == Utf8ToString(BufferConcat(accepted.chunks, accepted.totalBytes))
  IN
  IF p.index # transfer.nextIndex \/ p.index >= transfer.chunkCount
  THEN [st |-> ResolveInvokeError(st, p.id, p.nodeId, InvalidRequest("chunk out of order")),
        ret |-> "chunk-out-of-order"]
  ELSE IF Len(decoded) # p.bytes
  THEN [st |-> ResolveInvokeError(st, p.id, p.nodeId, InvalidRequest("chunk bytes mismatch")),
        ret |-> "chunk-bytes-mismatch"]
  ELSE IF nextBytes > transfer.totalBytes
  THEN [st |-> ResolveInvokeError(st, p.id, p.nodeId, InvalidRequest("chunk bytes mismatch")),
        ret |-> "chunk-bytes-mismatch"]
  ELSE IF accepted.nextIndex # accepted.chunkCount
  THEN [st |-> st1, ret |-> "ok"]
  ELSE IF accepted.bytesReceived # accepted.totalBytes
  THEN [st |-> ResolveInvokeError(st1, p.id, p.nodeId, InvalidRequest("chunk bytes mismatch")),
        ret |-> "chunk-bytes-mismatch"]
  ELSE IF digest # accepted.sha256
  THEN [st |-> ResolveInvokeError(st1, p.id, p.nodeId, InvalidRequest("hash mismatch")),
        ret |-> "hash-mismatch"]
  ELSE [st |-> HandleInvokeResult(st1, [id |-> p.id, nodeId |-> p.nodeId, ok |-> TRUE,
                                        payload |-> "undefined",
                                        payloadJSON |-> payloadJSON,
                                        error |-> UndefinedError]).st,
        ret |-> "ok"]

ChunkFrame(p) ==
  LET r == HandleInvokeResultChunk(Cur, p)
  IN /\ Commit(r.st)
     /\ lastOp' = Op("handleInvokeResultChunk", p.id, p.nodeId, "-", r.ret)
     /\ UNCHANGED <<nodesById, nodesByConn, nextRequestId, observing>>

\* ----------------------------------------------- abortInvokeResultTransfer

AbortedError == [code |-> "UNAVAILABLE", message |-> "node invoke aborted"]

\* abortInvokeResultTransfer passing params.error on without its default.
AbortInvokeResultTransfer_NoDefault(st, p) ==
  IF \/ p.id \notin DOMAIN st.pendingInvokes
     \/ st.pendingInvokes[p.id].nodeId # p.nodeId
  THEN [st |-> IF /\ p.id \in TransferIds(st.invokeTransfers)
                  /\ TransferOf(st.invokeTransfers, p.id).nodeId = p.nodeId
               THEN ClearInvokeTransfer(st, p.id) ELSE st,
        ret |-> FALSE]
  ELSE [st |-> HandleInvokeResult(st, [id |-> p.id, nodeId |-> p.nodeId, ok |-> FALSE,
                                       payload |-> "undefined",
                                       payloadJSON |-> UndefinedJSON,
                                       error |-> p.error]).st,
        ret |-> TRUE]

AbortInvokeResultTransfer(st, p) ==
  IF \/ p.id \notin DOMAIN st.pendingInvokes
     \/ st.pendingInvokes[p.id].nodeId # p.nodeId
  THEN [st |-> IF /\ p.id \in TransferIds(st.invokeTransfers)
                  /\ TransferOf(st.invokeTransfers, p.id).nodeId = p.nodeId
               THEN ClearInvokeTransfer(st, p.id) ELSE st,
        ret |-> FALSE]
  ELSE [st |-> HandleInvokeResult(st, [id |-> p.id, nodeId |-> p.nodeId, ok |-> FALSE,
                                       payload |-> "undefined",
                                       payloadJSON |-> UndefinedJSON,
                                       error |-> IF p.error \in {UndefinedError, NullError}
                                                 THEN AbortedError ELSE p.error]).st,
        ret |-> TRUE]

AbortFrame(p) ==
  LET r == AbortInvokeResultTransfer(Cur, p)
  IN /\ Commit(r.st)
     /\ lastOp' = Op("abortInvokeResultTransfer", p.id, p.nodeId, "-", BoolStr(r.ret))
     /\ UNCHANGED <<nodesById, nodesByConn, nextRequestId, observing>>

\* ----------------------------------------------------------- node frames

\* Chunk texts a node sends: the base64 texts "QQ", "Qg" and "QUI" of "A", "B"
\* and "AB", as sextets; the digest it declares is that of "AB", in upper case.
B64Texts == {<<16, 16>>, <<16, 32>>, <<16, 20, 8>>}
DigestStrings == {[of |-> <<65, 66>>, upper |-> TRUE]}

StartFrames ==
  [id : RequestIds, nodeId : NodeIds, totalBytes : TotalBytesValues,
   chunkBytes : ChunkBytesValues, chunkCount : ChunkCountValues,
   sha256 : DigestStrings, maxInvokeResultBytes : {MaxInvokeResultBytes},
   maxInflightBytes : {MaxInflightBytes}]

ChunkFrames ==
  [id : RequestIds, nodeId : NodeIds, index : ChunkIndexValues, data : B64Texts,
   bytes : ChunkLengthValues]

AbortFrames == [id : RequestIds, nodeId : NodeIds, error : {UndefinedError, AppError}]

\* ================================================= requestExecHostViaSocket

\* Bounds of the exec-host behaviours: data events delivered to one request,
\* and lines per data event.
MaxDataEvents == 2
MaxLinesPerData == 2

DefaultBaseTimeoutMs == 20000
PendingTimeoutMs == 300000

\* An absent number (undefined) in params.timeoutMs or payload.timeoutMs.
UndefinedMs == 0 - 1
TimeoutMsParams == {UndefinedMs, 80000}

\* The payload of an exec-pending message; defined is FALSE when the message
\* has no payload.
UndefinedPayload == [defined |-> FALSE, reason |-> "undefined", timeoutMs |-> UndefinedMs]
PendingPayloads ==
  {UndefinedPayload,
   [defined |-> TRUE, reason |-> "awaiting-approval", timeoutMs |-> UndefinedMs],
   [defined |-> TRUE, reason |-> "awaiting-approval", timeoutMs |-> 60000]}

\* The lines a host can send: exec-pending, exec-res (ok with a payload, not ok
\* with an error, ok without a payload), a message of another type, and a line
\* that is not JSON.
ExecPendingLines == [type : {"exec-pending"}, payload : PendingPayloads]
ExecResLines ==
  {[type |-> "exec-res", ok |-> TRUE, payload |-> "run-result", error |-> "undefined"],
   [type |-> "exec-res", ok |-> FALSE, payload |-> "undefined", error |-> "host-error"],
   [type |-> "exec-res", ok |-> TRUE, payload |-> "undefined", error |-> "undefined"]}
OtherLines == {[type |-> "other"], [type |-> "not-json"]}
ExecLines == ExecPendingLines \cup ExecResLines \cup OtherLines

\* The lines of one data event.
DataChunks == UNION {[1..n -> ExecLines] : n \in 1..MaxLinesPerData}

\* How long the clock moves in one step when no timer is due earlier.
Delays == {50000}

\* ExecHostResponse | null
NullResponse == [kind |-> "null"]
RunResponse(payload) == [kind |-> "ok", payload |-> payload]
ErrorResponse(error) == [kind |-> "error", error |-> error]
ApprovalTimeoutResponse == [kind |-> "pending", reason |-> "approval-timeout"]

VARIABLES
  execSettled,      \* let settled
  buffer,           \* let buffer: the received lines not yet taken by the loop
  pendingReceived,  \* let pendingReceived
  timer,            \* let timer: the handle of the last setTimeout
  armedTimers,      \* the setTimeout handles that are armed
  timersCreated,    \* how many setTimeout calls were made
  clientDestroyed,  \* whether client.destroy() was called
  resolutions,      \* the values passed to resolve, in order
  onPendingCalls,   \* the payloads passed to onPending, in order
  now,              \* the clock, in ms since the request started
  baseTimeoutMs,    \* params.timeoutMs ?? 20_000
  hasOnPending,     \* whether params.onPending is given
  dataEvents,       \* how many data events were delivered
  socketClosed      \* whether the connection was closed without an error

execVars == <<execSettled, buffer, pendingReceived, timer, armedTimers, timersCreated,
              clientDestroyed, resolutions, onPendingCalls, now, baseTimeoutMs,
              hasOnPending, dataEvents, socketClosed>>

ExecCur ==
  [execSettled |-> execSettled, buffer |-> buffer,
   pendingReceived |-> pendingReceived, timer |-> timer,
   armedTimers |-> armedTimers, timersCreated |-> timersCreated,
   clientDestroyed |-> clientDestroyed, resolutions |-> resolutions,
   onPendingCalls |-> onPendingCalls]

ExecCommit(st) ==
  /\ execSettled' = st.execSettled
  /\ buffer' = st.buffer
  /\ pendingReceived' = st.pendingReceived
  /\ timer' = st.timer
  /\ armedTimers' = st.armedTimers
  /\ timersCreated' = st.timersCreated
  /\ clientDestroyed' = st.clientDestroyed
  /\ resolutions' = st.resolutions
  /\ onPendingCalls' = st.onPendingCalls

NoTimer == [id |-> 0, kind |-> "none", at |-> 0]

SetTimeout(st, kind, delay, t) ==
  LET handle == [id |-> st.timersCreated + 1, kind |-> kind, at |-> t + delay]
  IN [st EXCEPT !.timer = handle,
                !.armedTimers = @ \cup {handle},
                !.timersCreated = @ + 1]

\* clearTimeout that cancels nothing.
ClearTimeout_NoOp(st, handle) == st

ClearTimeout(st, handle) == [st EXCEPT !.armedTimers = @ \ {handle}]

\* finish without its settled guard.
Finish_Unguarded(st, value) ==
  [ClearTimeout(st, st.timer) EXCEPT
     !.execSettled = TRUE,
     !.clientDestroyed = TRUE,
     !.resolutions = Append(@, value)]

Finish(st, value) ==
  IF st.execSettled THEN st
  ELSE [ClearTimeout(st, st.timer) EXCEPT
          !.execSettled = TRUE,
          !.clientDestroyed = TRUE,
          !.resolutions = Append(@, value)]

\* The state of the promise executor once it has run: the base timer is armed
\* and nothing else has happened.
ExecStarted(timeoutMs, onPending) ==
  /\ baseTimeoutMs = (IF timeoutMs = UndefinedMs THEN DefaultBaseTimeoutMs ELSE timeoutMs)
  /\ hasOnPending = onPending
  /\ execSettled = FALSE
  /\ buffer = <<>>
  /\ socketClosed = FALSE
  /\ pendingReceived = FALSE
  /\ timer = [id |-> 1, kind |-> "base", at |-> baseTimeoutMs]
  /\ armedTimers = {timer}
  /\ timersCreated = 1
  /\ clientDestroyed = FALSE
  /\ resolutions = <<>>
  /\ onPendingCalls = <<>>
  /\ now = 0
  /\ dataEvents = 0

\* No exec-host request is in progress.
ExecIdle ==
  /\ baseTimeoutMs = DefaultBaseTimeoutMs
  /\ hasOnPending = FALSE
  /\ execSettled = FALSE
  /\ buffer = <<>>
  /\ socketClosed = FALSE
  /\ pendingReceived = FALSE
  /\ timer = NoTimer
  /\ armedTimers = {}
  /\ timersCreated = 0
  /\ clientDestroyed = FALSE
  /\ resolutions = <<>>
  /\ onPendingCalls = <<>>
  /\ now = 0
  /\ dataEvents = 0

\* The data handler's line step without the clearTimeout(timer) of its
\* exec-pending branch.
HandleLine_KeepsBaseTimer(st, msg, t, onPending) ==
  IF msg.type = "exec-pending"
  THEN LET st1 == [st EXCEPT !.pendingReceived = TRUE]
           st2 == st1
           extendedTimeout == IF msg.payload.timeoutMs = UndefinedMs
                              THEN PendingTimeoutMs ELSE msg.payload.timeoutMs
           st3 == SetTimeout(st2, "extended", extendedTimeout, t)
           st4 == IF onPending
                  THEN [st3 EXCEPT !.onPendingCalls = Append(@, msg.payload)]
                  ELSE st3
       IN [st |-> st4, return |-> FALSE]
  ELSE IF msg.type = "exec-res"
  THEN LET st1 == ClearTimeout(st, st.timer)
       IN IF msg.ok = TRUE /\ msg.payload # "undefined"
          THEN [st |-> Finish(st1, RunResponse(msg.payload)), return |-> TRUE]
          ELSE IF msg.ok = FALSE /\ msg.error # "undefined"
          THEN [st |-> Finish(st1, ErrorResponse(msg.error)), return |-> TRUE]
          ELSE [st |-> Finish(st1, NullResponse), return |-> TRUE]
  ELSE [st |-> st, return |-> FALSE]

\* The data handler's line step without the return of its exec-res branch.
HandleLine_ResContinues(st, msg, t, onPending) ==
  IF msg.type = "exec-pending"
  THEN LET st1 == [st EXCEPT !.pendingReceived = TRUE]
           st2 == ClearTimeout(st1, st1.timer)
           extendedTimeout == IF msg.payload.timeoutMs = UndefinedMs
                              THEN PendingTimeoutMs ELSE msg.payload.timeoutMs
           st3 == SetTimeout(st2, "extended", extendedTimeout, t)
           st4 == IF onPending
                  THEN [st3 EXCEPT !.onPendingCalls = Append(@, msg.payload)]
                  ELSE st3
       IN [st |-> st4, return |-> FALSE]
  ELSE IF msg.type = "exec-res"
  THEN LET st1 == ClearTimeout(st, st.timer)
       IN IF msg.ok = TRUE /\ msg.payload # "undefined"
          THEN [st |-> Finish(st1, RunResponse(msg.payload)), return |-> FALSE]
          ELSE IF msg.ok = FALSE /\ msg.error # "undefined"
          THEN [st |-> Finish(st1, ErrorResponse(msg.error)), return |-> FALSE]
          ELSE [st |-> Finish(st1, NullResponse), return |-> FALSE]
  ELSE [st |-> st, return |-> FALSE]

\* One parsed line of the data handler at time t; return says whether the
\* handler returns after it.
HandleLine(st, msg, t, onPending) ==
  IF msg.type = "exec-pending"
  THEN LET st1 == [st EXCEPT !.pendingReceived = TRUE]
           st2 == ClearTimeout(st1, st1.timer)
           extendedTimeout == IF msg.payload.timeoutMs = UndefinedMs
                              THEN PendingTimeoutMs ELSE msg.payload.timeoutMs
           st3 == SetTimeout(st2, "extended", extendedTimeout, t)
           st4 == IF onPending
                  THEN [st3 EXCEPT !.onPendingCalls = Append(@, msg.payload)]
                  ELSE st3
       IN [st |-> st4, return |-> FALSE]
  ELSE IF msg.type = "exec-res"
  THEN LET st1 == ClearTimeout(st, st.timer)
       IN IF msg.ok = TRUE /\ msg.payload # "undefined"
          THEN [st |-> Finish(st1, RunResponse(msg.payload)), return |-> TRUE]
          ELSE IF msg.ok = FALSE /\ msg.error # "undefined"
          THEN [st |-> Finish(st1, ErrorResponse(msg.error)), return |-> TRUE]
          ELSE [st |-> Finish(st1, NullResponse), return |-> TRUE]
  ELSE [st |-> st, return |-> FALSE]

\* The data handler's loop over the buffered lines: each line is cut from the
\* buffer before it is handled, and a return leaves the rest in the buffer.
RECURSIVE DrainBuffer(_, _, _)
DrainBuffer(st, t, onPending) ==
  IF st.buffer = <<>> THEN st
  ELSE LET line == Head(st.buffer)
           r == HandleLine([st EXCEPT !.buffer = Tail(@)], line, t, onPending)
       IN IF r.return THEN r.st ELSE DrainBuffer(r.st, t, onPending)

\* client.on("data"): the lines of the event (whole lines) are added to the
\* buffer and the loop runs.
OnData(st, lines, t, onPending) ==
  DrainBuffer([st EXCEPT !.buffer = @ \o lines], t, onPending)

\* A data event: a socket that was destroyed or closed delivers none.
Data(lines) ==
  /\ ~clientDestroyed
  /\ ~socketClosed
  /\ dataEvents < MaxDataEvents
  /\ ExecCommit(OnData(ExecCur, lines, now, hasOnPending))
  /\ dataEvents' = dataEvents + 1
  /\ UNCHANGED <<now, baseTimeoutMs, hasOnPending, socketClosed>>

\* client.on("error")
SocketError ==
  /\ ExecCommit(Finish(ExecCur, NullResponse))
  /\ UNCHANGED <<now, baseTimeoutMs, hasOnPending, dataEvents, socketClosed>>

\* The host closes the connection without an error ("end" and "close" are
\* emitted): the client registers no handler for either, so nothing runs.
SocketClose ==
  /\ ~clientDestroyed
  /\ ~socketClosed
  /\ socketClosed' = TRUE
  /\ UNCHANGED <<execSettled, buffer, pendingReceived, timer, armedTimers,
                 timersCreated, clientDestroyed, resolutions, onPendingCalls, now,
                 baseTimeoutMs, hasOnPending, dataEvents>>

\* The timer callbacks with the base timer's test of pendingReceived left out:
\* every expiry reports the approval timeout.
TimerCallback_AlwaysPending(st, handle) == Finish(st, ApprovalTimeoutResponse)

\* The callback of an armed timer whose time has come.
TimerCallback(st, handle) ==
  IF handle.kind = "base"
  THEN IF st.pendingReceived THEN Finish(st, ApprovalTimeoutResponse)
       ELSE Finish(st, NullResponse)
  ELSE Finish(st, ApprovalTimeoutResponse)

ExecTimerFire(handle) ==
  /\ handle \in armedTimers
  /\ now >= handle.at
  /\ ExecCommit(TimerCallback([ExecCur EXCEPT !.armedTimers = @ \ {handle}], handle))
  /\ UNCHANGED <<now, baseTimeoutMs, hasOnPending, dataEvents, socketClosed>>

\* Time passes, to t, while the request is unresolved; it does not pass the
\* time of an armed timer without that timer firing.
Advance(t) ==
  /\ ~execSettled
  /\ t > now
  /\ \A handle \in armedTimers : t <= handle.at
  /\ now' = t
  /\ UNCHANGED <<execSettled, buffer, pendingReceived, timer, armedTimers,
                 timersCreated, clientDestroyed, resolutions, onPendingCalls,
                 baseTimeoutMs, hasOnPending, dataEvents, socketClosed>>

\* ===================================================== pruneContextMessages

\* Bound of the context-pruning behaviours: the longest message array.
MaxMessages == 3

CharsPerTokenEstimate == 4
ImageCharEstimate == 8000
DefaultMessageChars == 256
\* Length of the note softTrimToolResultMessage appends, without its numbers,
\* and of the "\n...\n" softTrimText puts between head and tail.
TrimNoteChars == 69
TrimGapChars == 5

\* A text is modelled by a name and its length; blocks are text or image.
Text(id, length) == [id |-> id, length |-> length]
TextBlock(text) == [type |-> "text", text |-> text]
ImageBlock == [type |-> "image", text |-> Text("-", 0)]

UserMessage ==
  [role |-> "user", toolName |-> "-", content |-> <<TextBlock(Text("ask", 40))>>]
AssistantMessage ==
  [role |-> "assistant", toolName |-> "-", content |-> <<TextBlock(Text("say", 60))>>]
ToolResult(toolName, content) ==
  [role |-> "toolResult", toolName |-> toolName, content |-> content]

AgentMessages ==
  {UserMessage, AssistantMessage,
   ToolResult("read", <<TextBlock(Text("file", 400))>>),
   ToolResult("read", <<TextBlock(Text("part", 150)), TextBlock(Text("rest", 150))>>),
   ToolResult("read", <<TextBlock(Text("shot", 400)), ImageBlock>>),
   ToolResult("keep", <<TextBlock(Text("memo", 400))>>),
   ToolResult("read", <<TextBlock(Text("line", 30))>>)}

MessageArrays == UNION {[1..n -> AgentMessages] : n \in 0..MaxMessages}

\* params.contextWindowTokensOverride and ctx.model?.contextWindow, absent or
\* a number of tokens.
UndefinedTokens == 0 - 1
WindowOverrides == {UndefinedTokens, 100}
ModelWindows == {UndefinedTokens, 1000}

\* EffectiveContextPruningSettings; the ratios are held in percent and tools
\* by the tool names its predicate accepts.
PruningSettings ==
  [keepLastAssistants : {0, 1, 2}, softTrimRatio : {30}, hardClearRatio : {50},
   minPrunableToolChars : {100},
   softTrim : {[maxChars |-> 200, headChars |-> 10, tailChars |-> 10]},
   hardClear : [enabled : BOOLEAN, placeholder : {Text("placeholder", 20)}],
   tools : {{"read"}, {"read", "keep"}}]

NotLoaded == [keepLastAssistants |-> 0 - 1]
NoCutoff == 0 - 1

VARIABLES
  eventMessages,   \* event.messages: the caller's array
  loaded,          \* what loadSettingsFromEnv returned: the settings or null
  windowOverride,  \* loaded.contextWindowTokens
  modelWindow,     \* ctx.model?.contextWindow
  contextReturn    \* what the "context" handler returned

pruneVars == <<eventMessages, loaded, windowOverride, modelWindow, contextReturn>>

HasImageBlocks(content) == \E i \in 1..Len(content) : content[i].type = "image"

RECURSIVE SumChars(_)
SumChars(content) ==
  IF content = <<>> THEN 0
  ELSE (IF Head(content).type = "text" THEN Head(content).text.length
        ELSE ImageCharEstimate)
       + SumChars(Tail(content))

\* The messages of the model carry text blocks and, in user and tool-result
\* messages, image blocks.
EstimateMessageChars(message) ==
  IF message.role \in {"user", "assistant", "toolResult"}
  THEN SumChars(message.content)
  ELSE DefaultMessageChars

RECURSIVE EstimateContextChars(_)
EstimateContextChars(messages) ==
  IF messages = <<>> THEN 0
  ELSE EstimateMessageChars(Head(messages)) + EstimateContextChars(Tail(messages))

\* Indexes are the code's, from 0: messages[i] is the model's messages[i + 1].
RECURSIVE CutoffFrom(_, _, _)
CutoffFrom(messages, i, remaining) ==
  IF i < 0 THEN NoCutoff
  ELSE IF messages[i + 1].role # "assistant" THEN CutoffFrom(messages, i - 1, remaining)
  ELSE IF remaining - 1 = 0 THEN i
  ELSE CutoffFrom(messages, i - 1, remaining - 1)

FindAssistantCutoffIndex(messages, keepLastAssistants) ==
  IF keepLastAssistants <= 0 THEN Len(messages)
  ELSE CutoffFrom(messages, Len(messages) - 1, keepLastAssistants)

\* extractText(content).length: the text blocks joined by "\n".
RECURSIVE TextBlocksChars(_)
TextBlocksChars(content) ==
  IF content = <<>> THEN 0
  ELSE (IF Head(content).type = "text" THEN Head(content).text.length + 1 ELSE 0)
       + TextBlocksChars(Tail(content))

ExtractTextChars(content) == Max(0, TextBlocksChars(content) - 1)

Digits(n) == IF n < 10 THEN 1 ELSE IF n < 100 THEN 2 ELSE IF n < 1000 THEN 3 ELSE 4

\* softTrimText(...).length, for head and tail sizes of at least 1.
SoftTrimTextChars(chars, headChars, tailChars) ==
  IF headChars + tailChars >= chars THEN chars
  ELSE headChars + TrimGapChars + tailChars

\* softTrimToolResultMessage: the trimmed message, or the message itself where
\* the code returns null.
SoftTrimToolResultMessage(msg, settings) ==
  LET rawChars == ExtractTextChars(msg.content)
      head == settings.softTrim.headChars
      tail == settings.softTrim.tailChars
      chars == SoftTrimTextChars(rawChars, head, tail)
                 + TrimNoteChars + Digits(head) + Digits(tail) + Digits(rawChars)
  IN IF HasImageBlocks(msg.content) \/ rawChars <= settings.softTrim.maxChars
     THEN msg
     ELSE [msg EXCEPT !.content = <<TextBlock(Text("trimmed", chars))>>]

\* ratio < limit, with the limit in percent.
RatioBelow(totalChars, charWindow, percent) == totalChars * 100 < percent * charWindow

\* The first loop: acc holds next (the array written to), totalChars and
\* prunableToolIndexes.
RECURSIVE SoftTrimLoop(_, _, _, _)
SoftTrimLoop(acc, i, cutoffIndex, settings) ==
  IF i >= cutoffIndex THEN acc
  ELSE LET msg == acc.next[i + 1]
           updated == SoftTrimToolResultMessage(msg, settings)
           skipped == \/ msg.role # "toolResult"
                      \/ msg.toolName \notin settings.tools
                      \/ HasImageBlocks(msg.content)
           acc1 == IF skipped THEN acc
                   ELSE [acc EXCEPT
                           !.prunableToolIndexes = Append(@, i),
                           !.next[i + 1] = updated,
                           !.copied = @ \/ updated # msg,
                           !.totalChars = @ + EstimateMessageChars(updated)
                                            - EstimateMessageChars(msg)]
       IN SoftTrimLoop(acc1, i + 1, cutoffIndex, settings)

\* The second loop, over prunableToolIndexes, which stops once the ratio is
\* below hardClearRatio.
RECURSIVE HardClearLoop(_, _, _, _)
HardClearLoop(acc, indexes, charWindow, settings) ==
  IF indexes = <<>> \/ RatioBelow(acc.totalChars, charWindow, settings.hardClearRatio)
  THEN acc
  ELSE LET i == Head(indexes)
           msg == acc.next[i + 1]
           cleared == [msg EXCEPT !.content = <<TextBlock(settings.hardClear.placeholder)>>]
           acc1 == [acc EXCEPT
                      !.next[i + 1] = cleared,
                      !.copied = TRUE,
                      !.totalChars = @ + EstimateMessageChars(cleared)
                                       - EstimateMessageChars(msg)]
       IN HardClearLoop(acc1, Tail(indexes), charWindow, settings)

RECURSIVE PrunableToolChars(_, _)
PrunableToolChars(next, indexes) ==
  IF indexes = <<>> THEN 0
  ELSE EstimateMessageChars(next[Head(indexes) + 1]) + PrunableToolChars(next, Tail(indexes))

\* What a call leaves: messages is the caller's array after the call, next the
\* returned array, same whether the returned array is the caller's array.
Returns(messages, next, same) == [messages |-> messages, next |-> next, same |-> same]

\* pruneContextMessages writing into the caller's array instead of a copy.
PruneContextMessages_InPlace(messages, settings, override, window) ==
  LET contextWindowTokens == IF override > 0 THEN override ELSE window
      charWindow == contextWindowTokens * CharsPerTokenEstimate
      cutoffIndex == FindAssistantCutoffIndex(messages, settings.keepLastAssistants)
      totalCharsBefore == EstimateContextChars(messages)
      soft == SoftTrimLoop([next |-> messages, totalChars |-> totalCharsBefore,
                            prunableToolIndexes |-> <<>>, copied |-> FALSE],
                           0, cutoffIndex, settings)
      hard == HardClearLoop(soft, soft.prunableToolIndexes, charWindow, settings)
  IN IF contextWindowTokens <= 0 THEN Returns(messages, messages, TRUE)
     ELSE IF cutoffIndex = NoCutoff THEN Returns(messages, messages, TRUE)
     ELSE IF RatioBelow(totalCharsBefore, charWindow, settings.softTrimRatio)
     THEN Returns(messages, messages, TRUE)
     ELSE IF \/ RatioBelow(soft.totalChars, charWindow, settings.hardClearRatio)
             \/ ~settings.hardClear.enabled
             \/ PrunableToolChars(soft.next, soft.prunableToolIndexes)
                  < settings.minPrunableToolChars
     THEN Returns(soft.next, soft.next, TRUE)
     ELSE Returns(hard.next, hard.next, TRUE)

PruneContextMessages(messages, settings, override, window) ==
  LET contextWindowTokens == IF override > 0 THEN override ELSE window
      charWindow == contextWindowTokens * CharsPerTokenEstimate
      cutoffIndex == FindAssistantCutoffIndex(messages, settings.keepLastAssistants)
      totalCharsBefore == EstimateContextChars(messages)
      soft == SoftTrimLoop([next |-> messages, totalChars |-> totalCharsBefore,
                            prunableToolIndexes |-> <<>>, copied |-> FALSE],
                           0, cutoffIndex, settings)
      hard == HardClearLoop(soft, soft.prunableToolIndexes, charWindow, settings)
  IN IF contextWindowTokens <= 0 THEN Returns(messages, messages, TRUE)
     ELSE IF cutoffIndex = NoCutoff THEN Returns(messages, messages, TRUE)
     ELSE IF RatioBelow(totalCharsBefore, charWindow, settings.softTrimRatio)
     THEN Returns(messages, messages, TRUE)
     ELSE IF \/ RatioBelow(soft.totalChars, charWindow, settings.hardClearRatio)
             \/ ~settings.hardClear.enabled
             \/ PrunableToolChars(soft.next, soft.prunableToolIndexes)
                  < settings.minPrunableToolChars
     THEN Returns(messages, soft.next, ~soft.copied)
     ELSE Returns(messages, hard.next, ~hard.copied)

NotCalled == [called |-> FALSE, messages |-> <<>>, result |-> "undefined", next |-> <<>>]

\* No context event was handled yet.
PruneIdle ==
  /\ eventMessages = <<>>
  /\ loaded = NotLoaded
  /\ windowOverride = UndefinedTokens
  /\ modelWindow = UndefinedTokens
  /\ contextReturn = NotCalled

\* The "context" handler of the extension: undefined when no settings are
\* loaded or the pruner returned the event's own array, else the new array.
ContextEvent ==
  /\ ~contextReturn.called
  /\ LET r == PruneContextMessages(eventMessages, loaded, windowOverride, modelWindow)
     IN /\ eventMessages' = (IF loaded = NotLoaded THEN eventMessages ELSE r.messages)
        /\ contextReturn' =
             IF loaded = NotLoaded \/ r.same
             THEN [called |-> TRUE, messages |-> eventMessages,
                   result |-> "undefined", next |-> eventMessages]
             ELSE [called |-> TRUE, messages |-> eventMessages,
                   result |-> "messages", next |-> r.next]
  /\ UNCHANGED <<loaded, windowOverride, modelWindow>>

\* ================================================== exec.pending at the gateway

VARIABLE
  awaitingApproval  \* the invoke ids whose node has signalled awaiting approval

approvalVars == <<awaitingApproval>>

NoApprovalSignal == awaitingApproval = {}

\* The node relays that the command of a pending invoke awaits approval
\* (exec.pending): NodeRegistry has no operation that takes the signal, so the
\* pending invoke and its timer stay as they are.
ExecPendingEvent(id) ==
  /\ id \in DOMAIN pendingInvokes
  /\ id \notin awaitingApproval
  /\ awaitingApproval' = awaitingApproval \cup {id}
  /\ UNCHANGED vars

\* ------------------------------------------------------- specifications

\* ======================================================= GatewayNodeSession

\* Bounds of the node session behaviours: the longest payloadJSON a reply
\* carries, the maxPayload a snapshot's policy gives, and the bytes an encoded
\* node.invoke.result frame has besides its payloadJSON and besides its error.
MaxPayloadJSONBytes == 3
PolicyMaxPayload == 1
EnvelopeBytes == 1
ErrorBytes == 1

DefaultMaxPayloadBytes == 524288
DefaultMaxInvokeResultBytes == 52428800
ChunkOverheadBytes == 4096
MaxChunkBytes == 262144

\* A policy entry the snapshot does not carry.
NoPolicy == 0 - 1
PolicyMaxPayloads == {NoPolicy, PolicyMaxPayload}
PolicyMaxInvokeResults == {NoPolicy, MaxInvokeResultBytes}

PayloadJSONs == UNION {[1..n -> {65, 66}] : n \in 0..MaxPayloadJSONBytes}

\* The replies of onInvoke (BridgeInvokeResponse): payloadJSON and error are
\* optional.
Responses ==
  [ok : {TRUE}, payloadJSON : PayloadJSONs \cup {UndefinedJSON}, error : {UndefinedError}]
  \cup
  [ok : {FALSE}, payloadJSON : {UndefinedJSON, <<65, 66>>}, error : {AppError}]

\* The node.invoke.request payloads the node receives.
Requests == [id : RequestIds, nodeId : {"node-1"}]
NoRequest == [id |-> 0, nodeId |-> "-"]
NoResponse == [ok |-> FALSE, payloadJSON |-> UndefinedJSON, error |-> UndefinedError]

VARIABLES
  supportsInvokeResultChunk,  \* private var supportsInvokeResultChunk
  maxPayloadBytes,            \* private var maxPayloadBytes
  maxInvokeResultBytes,       \* private var maxInvokeResultBytes
  sending,                    \* the sendInvokeResult call in progress and its locals
  nodeFrames,                 \* the frames handed to the channel, in order
  responses                   \* history: the reply onInvoke gave to each request id

nodeVars == <<supportsInvokeResultChunk, maxPayloadBytes, maxInvokeResultBytes,
              sending, nodeFrames, responses>>

NodeCur ==
  [supportsInvokeResultChunk |-> supportsInvokeResultChunk,
   maxPayloadBytes |-> maxPayloadBytes,
   maxInvokeResultBytes |-> maxInvokeResultBytes,
   sending |-> sending, nodeFrames |-> nodeFrames]

NodeCommit(st) ==
  /\ supportsInvokeResultChunk' = st.supportsInvokeResultChunk
  /\ maxPayloadBytes' = st.maxPayloadBytes
  /\ maxInvokeResultBytes' = st.maxInvokeResultBytes
  /\ sending' = st.sending
  /\ nodeFrames' = st.nodeFrames

NotSending ==
  [pc |-> "idle", request |-> NoRequest, payloadData |-> <<>>, chunkBytes |-> 0,
   chunkCount |-> 0, index |-> 0]

\* The session after init().
NodeSessionIdle ==
  /\ supportsInvokeResultChunk = FALSE
  /\ maxPayloadBytes = DefaultMaxPayloadBytes
  /\ maxInvokeResultBytes = DefaultMaxInvokeResultBytes
  /\ sending = NotSending
  /\ nodeFrames = <<>>
  /\ responses = [id \in RequestIds |-> NoResponse]

Min(a, b) == IF a <= b THEN a ELSE b

\* Data.base64EncodedString(), as the sextets of its characters without the
\* padding.
RECURSIVE Base64Encode(_)
Base64Encode(b) ==
  IF Len(b) = 0 THEN <<>>
  ELSE IF Len(b) = 1 THEN <<b[1] \div 4, (b[1] % 4) * 16>>
  ELSE IF Len(b) = 2
  THEN <<b[1] \div 4, (b[1] % 4) * 16 + (b[2] \div 16), (b[2] % 16) * 4>>
  ELSE <<b[1] \div 4, (b[1] % 4) * 16 + (b[2] \div 16),
         (b[2] % 16) * 4 + (b[3] \div 64), b[3] % 64>>
       \o Base64Encode(SubSeq(b, 4, Len(b)))

\* The params of the direct node.invoke.result frame of a reply.
ResultParams(request, response) ==
  [id |-> request.id, nodeId |-> request.nodeId, ok |-> response.ok,
   payload |-> "undefined", payloadJSON |-> response.payloadJSON,
   error |-> response.error]

\* The length of the encoded frame: the envelope and the fields present.
EncodedSize(params) ==
  EnvelopeBytes
  + (IF params.payloadJSON = UndefinedJSON THEN 0 ELSE Len(params.payloadJSON))
  + (IF params.error = UndefinedError THEN 0 ELSE ErrorBytes)

ShouldChunkInvokeResult(st, params) == EncodedSize(params) > st.maxPayloadBytes

ResolveChunkBytes(st) ==
  LET maxEncoded == Max(1, st.maxPayloadBytes - ChunkOverheadBytes)
      maxRaw == Max(1, (maxEncoded * 3) \div 4)
  IN Min(MaxChunkBytes, maxRaw)

\* max(1, ceil(count / chunkBytes))
ChunkCountOf(count, chunkBytes) == Max(1, (count + chunkBytes - 1) \div chunkBytes)

DirectFrame(params) == [method |-> "node.invoke.result", params |-> params]

UnavailableFrame(request, message) ==
  DirectFrame([id |-> request.id, nodeId |-> request.nodeId, ok |-> FALSE,
               payload |-> "undefined", payloadJSON |-> UndefinedJSON,
               error |-> [code |-> "UNAVAILABLE", message |-> message]])

TooLargeFrame(request) == UnavailableFrame(request, "payload too large")
ChunkingFailedFrame(request) == UnavailableFrame(request, "chunking failed")

TransferStartFrame(request, totalBytes, chunkCount) ==
  [method |-> "node.invoke.result",
   params |-> [id |-> request.id, nodeId |-> request.nodeId, ok |-> TRUE,
               payloadTransfer |-> [format |-> "json", encoding |-> "base64",
                                    totalBytes |-> totalBytes,
                                    chunkCount |-> chunkCount]]]

TransferChunkFrame(request, payloadData, index, chunkBytes) ==
  LET start == index * chunkBytes
      end == Min(start + chunkBytes, Len(payloadData))
      chunk == SubSeq(payloadData, start + 1, end)
  IN [method |-> "node.invoke.result.chunk",
      params |-> [id |-> request.id, nodeId |-> request.nodeId, index |-> index,
                  data |-> Base64Encode(chunk), bytes |-> Len(chunk)]]

Request(st, frame, pc) ==
  [st EXCEPT !.nodeFrames = Append(@, frame), !.sending.pc = pc]

\* sendInvokeResult without its supportsInvokeResultChunk test.
BeginSend_IgnoresCapability(st, request, response) ==
  LET params == ResultParams(request, response)
      payloadData == response.payloadJSON
      chunkBytes == ResolveChunkBytes(st)
      chunkCount == ChunkCountOf(Len(payloadData), chunkBytes)
      st1 == [st EXCEPT !.sending = [NotSending EXCEPT !.request = request]]
  IN IF response.ok /\ response.payloadJSON # UndefinedJSON
        /\ ShouldChunkInvokeResult(st, params)
     THEN IF Len(payloadData) > st.maxInvokeResultBytes
          THEN Request(st1, TooLargeFrame(request), "await-too-large")
          ELSE Request([st1 EXCEPT !.sending.payloadData = payloadData,
                                   !.sending.chunkBytes = chunkBytes,
                                   !.sending.chunkCount = chunkCount],
                       TransferStartFrame(request, Len(payloadData), chunkCount),
                       "await-start")
     ELSE Request(st1, DirectFrame(params), "idle")

\* sendInvokeResult up to its first suspension: the first frame is handed to
\* the channel; the direct form is sent without waiting for a reply.
BeginSend(st, request, response) ==
  LET params == ResultParams(request, response)
      payloadData == response.payloadJSON
      chunkBytes == ResolveChunkBytes(st)
      chunkCount == ChunkCountOf(Len(payloadData), chunkBytes)
      st1 == [st EXCEPT !.sending = [NotSending EXCEPT !.request = request]]
  IN IF response.ok /\ response.payloadJSON # UndefinedJSON
        /\ ShouldChunkInvokeResult(st, params)
     THEN IF ~st.supportsInvokeResultChunk
          THEN Request(st1, TooLargeFrame(request), "await-too-large")
          ELSE IF Len(payloadData) > st.maxInvokeResultBytes
          THEN Request(st1, TooLargeFrame(request), "await-too-large")
          ELSE Request([st1 EXCEPT !.sending.payloadData = payloadData,
                                   !.sending.chunkBytes = chunkBytes,
                                   !.sending.chunkCount = chunkCount],
                       TransferStartFrame(request, Len(payloadData), chunkCount),
                       "await-start")
     ELSE Request(st1, DirectFrame(params), "idle")

\* sendInvokeResult from one suspension to the next: channel.request has
\* returned (ok) or thrown.
ContinueSend(st, ok) ==
  LET s == st.sending
      idle == [st EXCEPT !.sending = NotSending]
  IN IF s.pc \in {"await-too-large", "await-failed"} THEN idle
     ELSE IF ~ok THEN Request(st, ChunkingFailedFrame(s.request), "await-failed")
     ELSE LET index == IF s.pc = "await-start" THEN 0 ELSE s.index + 1
          IN IF index < s.chunkCount
             THEN Request([st EXCEPT !.sending.index = index],
                          TransferChunkFrame(s.request, s.payloadData, index, s.chunkBytes),
                          "await-chunk")
             ELSE idle

\* handlePush(.snapshot): the features and the policy of the hello.
HandlePush(methods, maxPayload, maxInvokeResult) ==
  /\ supportsInvokeResultChunk' = ("node.invoke.result.chunk" \in methods)
  /\ maxPayloadBytes' = (IF maxPayload = NoPolicy THEN maxPayloadBytes ELSE maxPayload)
  /\ maxInvokeResultBytes' =
       (IF maxInvokeResult = NoPolicy THEN maxInvokeResultBytes ELSE maxInvokeResult)
  /\ UNCHANGED <<sending, nodeFrames, responses>>

\* handleEvent(node.invoke.request): onInvoke has given its reply and
\* sendInvokeResult starts; one reply is sent at a time and each request is
\* answered once.
HandleEvent(request, response) ==
  /\ sending.pc = "idle"
  /\ \A i \in 1..Len(nodeFrames) : nodeFrames[i].params.id # request.id
  /\ NodeCommit(BeginSend(NodeCur, request, response))
  /\ responses' = [responses EXCEPT ![request.id] = response]

\* channel.request returns or throws.
ChannelReply(ok) ==
  /\ sending.pc # "idle"
  /\ NodeCommit(ContinueSend(NodeCur, ok))
  /\ UNCHANGED responses

FeatureMethods == {{}, {"node.invoke.result", "node.invoke.result.chunk"}}

\* A connection's connId is unique to it and a connection registers once (its
\* handshake): register is called with a connId no live entry of nodesByConn uses.
\* An observed behaviour has one connection at a time.
FreshConnIds == (IF observing THEN ObservedConnIds ELSE ConnIds) \ DOMAIN nodesByConn

Next ==
  \/ \E c \in FreshConnIds, n \in NodeIds : Register(c, n) /\ UNCHANGED <<execVars, nodeVars, pruneVars, approvalVars>>
  \/ \E c \in ConnIds : Unregister(c) /\ UNCHANGED <<execVars, nodeVars, pruneVars, approvalVars>>
  \/ \E n \in NodeIds, cmd \in Commands, sendOk \in BOOLEAN :
        Invoke(n, cmd, sendOk) /\ UNCHANGED <<execVars, nodeVars, pruneVars, approvalVars>>
  \/ \E id \in RequestIds : TimerFire(id) /\ UNCHANGED <<execVars, nodeVars, pruneVars, approvalVars>>
  \/ \E p \in ResultFrames : HandleInvokeResultFrame(p) /\ UNCHANGED <<execVars, nodeVars, pruneVars, approvalVars>>
  \/ \E p \in StartFrames : StartFrame(p) /\ UNCHANGED <<execVars, nodeVars, pruneVars, approvalVars>>
  \/ \E p \in ChunkFrames : ChunkFrame(p) /\ UNCHANGED <<execVars, nodeVars, pruneVars, approvalVars>>
  \/ \E p \in AbortFrames : AbortFrame(p) /\ UNCHANGED <<execVars, nodeVars, pruneVars, approvalVars>>

Init == Constructed /\ observing = FALSE /\ ExecIdle /\ NodeSessionIdle /\ PruneIdle
  /\ NoApprovalSignal

InitOps == Constructed /\ observing = TRUE /\ ExecIdle /\ NodeSessionIdle /\ PruneIdle
  /\ NoApprovalSignal

Spec == Init /\ [][Next]_vars

\* The same registry, one connection at a time, with lastOp recording.
SpecOps == InitOps /\ [][Next]_vars

\* The registry under Node's timer scheduling: a timer that stays armed fires.
TimersFire == \A id \in RequestIds : WF_vars(TimerFire(id))

SpecLive == Init /\ [][Next]_vars /\ TimersFire

\* The registry with the node's awaiting-approval signals.
NextApproval ==
  \/ Next
  \/ \E id \in RequestIds :
        ExecPendingEvent(id) /\ UNCHANGED <<execVars, nodeVars, pruneVars>>

SpecApproval == Init /\ [][NextApproval]_<<vars, approvalVars>>

\* One request of requestExecHostViaSocket, from the end of its promise
\* executor on, with the registry left as constructed.
AdvanceTimes == {now + d : d \in Delays} \cup {handle.at : handle \in armedTimers}

NextExec ==
  \/ \E lines \in DataChunks : Data(lines) /\ UNCHANGED <<vars, nodeVars, pruneVars, approvalVars>>
  \/ SocketError /\ UNCHANGED <<vars, nodeVars, pruneVars, approvalVars>>
  \/ SocketClose /\ UNCHANGED <<vars, nodeVars, pruneVars, approvalVars>>
  \/ \E handle \in armedTimers : ExecTimerFire(handle) /\ UNCHANGED <<vars, nodeVars, pruneVars, approvalVars>>
  \/ \E t \in AdvanceTimes : Advance(t) /\ UNCHANGED <<vars, nodeVars, pruneVars, approvalVars>>

InitExec ==
  /\ Constructed
  /\ observing = FALSE
  /\ NodeSessionIdle
  /\ PruneIdle
  /\ NoApprovalSignal
  /\ \E timeoutMs \in TimeoutMsParams, onPending \in BOOLEAN :
       ExecStarted(timeoutMs, onPending)

SpecExec == InitExec /\ [][NextExec]_execVars

\* One node session after its connect, with the registry left as constructed:
\* snapshots arrive, invoke requests are answered, the channel replies.
NextNode ==
  \/ \E methods \in FeatureMethods, maxPayload \in PolicyMaxPayloads,
        maxInvokeResult \in PolicyMaxInvokeResults :
        HandlePush(methods, maxPayload, maxInvokeResult) /\ UNCHANGED <<vars, execVars, pruneVars, approvalVars>>
  \/ \E request \in Requests, response \in Responses :
        HandleEvent(request, response) /\ UNCHANGED <<vars, execVars, pruneVars, approvalVars>>
  \/ \E ok \in BOOLEAN : ChannelReply(ok) /\ UNCHANGED <<vars, execVars, pruneVars, approvalVars>>

InitNode == Constructed /\ observing = FALSE /\ ExecIdle /\ NodeSessionIdle /\ PruneIdle
  /\ NoApprovalSignal

SpecNode == InitNode /\ [][NextNode]_nodeVars

\* One context event of the pruning extension: the event's messages, the
\* loaded settings and the windows are the inputs.
NextPrune == ContextEvent /\ UNCHANGED <<vars, execVars, nodeVars, approvalVars>>

InitPrune ==
  /\ Constructed
  /\ observing = FALSE
  /\ ExecIdle
  /\ NodeSessionIdle
  /\ eventMessages \in MessageArrays
  /\ loaded \in PruningSettings \cup {NotLoaded}
  /\ windowOverride \in WindowOverrides
  /\ modelWindow \in ModelWindows
  /\ contextReturn = NotCalled
  /\ NoApprovalSignal

SpecPrune == InitPrune /\ [][NextPrune]_pruneVars

\* =================================================================== claims

LastOutcome(outcomes) == outcomes[Len(outcomes)]

RECURSIVE SumTotalBytes(_)
SumTotalBytes(tr) ==
  IF tr = <<>> THEN 0 ELSE Head(tr).totalBytes + SumTotalBytes(Tail(tr))

TransfersOfNode(tr, nodeId) == SelectSeq(tr, LAMBDA t : t.nodeId = nodeId)

PendingOfNode(nodeId) ==
  {id \in DOMAIN pendingInvokes : pendingInvokes[id].nodeId = nodeId}

IsFailure(outcome, code) ==
  /\ outcome.kind = "resolve"
  /\ outcome.ok = FALSE
  /\ outcome.error.code = code

\* C1: the promise of an invoke that registered a PendingInvoke is settled at
\* most once: no request id ever collects two calls of resolve / reject, a
\* settled id has left the invocation table and has no armed timer (so no later
\* reply, frame, abort, timer expiry or unregister can settle it again), and an
\* id not yet issued is not settled.
C1_SettledAtMostOnce ==
  \A id \in RequestIds :
    /\ Len(settled[id]) <= 1
    /\ Len(settled[id]) = 1 => (id \notin DOMAIN pendingInvokes /\ id \notin timers)
    /\ id >= nextRequestId => settled[id] = <<>>

\* C1 witness: two invokes were issued and both are settled, one by its timer
\* and one by another terminal event.
C1_Witness ==
  \E a \in RequestIds, b \in RequestIds :
    /\ a # b
    /\ Len(settled[a]) = 1 /\ IsFailure(settled[a][1], "TIMEOUT")
    /\ Len(settled[b]) = 1 /\ ~IsFailure(settled[b][1], "TIMEOUT")

\* C2: invoke never rejects outward: every settlement of an invoke's promise is
\* a resolve with a NodeInvokeResult, and a failure result carries an error
\* object with a code.
C2_NeverRejects ==
  \A id \in RequestIds :
    \A i \in 1..Len(settled[id]) :
      /\ settled[id][i].kind = "resolve"
      /\ settled[id][i].ok = FALSE =>
           settled[id][i].error.code \notin {"null", "undefined"}

\* C3: unregister(connId) cancels the timer of every PendingInvoke of the
\* departed node and resolves its caller with {ok:false,
\* error:{code:"NOT_CONNECTED"}}.
C3_UnregisterResolvesNotConnected ==
  [][\A c \in ConnIds :
       (c \in DOMAIN nodesByConn /\ Unregister(c)) =>
         \A id \in PendingOfNode(nodesByConn[c]) :
           /\ id \notin timers'
           /\ Len(settled'[id]) = Len(settled[id]) + 1
           /\ IsFailure(LastOutcome(settled'[id]), "NOT_CONNECTED")]_vars

\* C4: right after unregister(connId) returned a nodeId, no PendingInvoke and
\* no transfer of that nodeId remains, the session is in neither index, and
\* inflightBytes went down by the totalBytes of every transfer torn down.
C4_UnregisterTearsDown ==
  [][\A c \in ConnIds :
       (c \in DOMAIN nodesByConn /\ Unregister(c)) =>
         LET nodeId == nodesByConn[c]
         IN /\ \A id \in DOMAIN pendingInvokes' : pendingInvokes'[id].nodeId # nodeId
            /\ TransfersOfNode(invokeTransfers', nodeId) = <<>>
            /\ c \notin DOMAIN nodesByConn'
            /\ nodeId \notin DOMAIN nodesById'
            /\ inflightBytes' =
                 inflightBytes - SumTotalBytes(TransfersOfNode(invokeTransfers, nodeId))]_vars

\* C5: register for a nodeId that already has a session first unregisters the
\* prior session: its connId leaves nodesByConn and every PendingInvoke and
\* transfer in flight for it is torn down with a NOT_CONNECTED failure.
C5_RegisterReplacesPrior ==
  [][\A c \in ConnIds, n \in NodeIds :
       (n \in DOMAIN nodesById /\ c \in FreshConnIds /\ Register(c, n)) =>
         /\ nodesById[n].connId \notin DOMAIN nodesByConn'
         /\ \A id \in PendingOfNode(n) :
              /\ id \notin DOMAIN pendingInvokes'
              /\ Len(settled'[id]) = Len(settled[id]) + 1
              /\ IsFailure(LastOutcome(settled'[id]), "NOT_CONNECTED")
         /\ TransfersOfNode(invokeTransfers', n) = <<>>]_vars

\* C6: once a newer connection holds a nodeId, unregister of the older
\* connection leaves the new session registered (get(nodeId) still returns it)
\* and fails no PendingInvoke.
C6_NewcomerWins ==
  [][\A c \in ConnIds :
       (/\ c \in DOMAIN nodesByConn
        /\ nodesByConn[c] \in DOMAIN nodesById
        /\ nodesById[nodesByConn[c]].connId # c
        /\ Unregister(c)) =>
         /\ SessionOf(nodesById', nodesByConn[c]) = Get(nodesByConn[c])
         /\ pendingInvokes' = pendingInvokes
         /\ settled' = settled]_vars

\* C7: the two indexes stay equivalent: nodesById has as many entries as there
\* are connIds whose nodesByConn entry names a nodeId present in nodesById.
C7_IndexesEquivalent ==
  Cardinality(DOMAIN nodesById)
    = Cardinality({c \in DOMAIN nodesByConn : nodesByConn[c] \in DOMAIN nodesById})

\* C8: every session S held in nodesById is stored under its own nodeId and
\* nodesByConn maps its connId to that nodeId (connections have pairwise
\* distinct connIds: register is handed fresh connIds).
C8_SessionsIndexed ==
  \A n \in DOMAIN nodesById :
    LET S == nodesById[n]
    IN /\ S.nodeId = n
       /\ nodesById[S.nodeId] = S
       /\ S.connId \in DOMAIN nodesByConn
       /\ nodesByConn[S.connId] = S.nodeId

\* C8 witness: a nodeId was re-registered from a second connection: its
\* session belongs to the newer connId while the older connId is still indexed.
C8_Witness ==
  \E c \in DOMAIN nodesByConn :
    /\ nodesByConn[c] \in DOMAIN nodesById
    /\ nodesById[nodesByConn[c]].connId # c

\* C9: after every operation, inflightBytes is the sum of totalBytes over the
\* transfers in the transfer table.
C9_InflightIsSum == inflightBytes = SumTotalBytes(invokeTransfers)

\* C10: inflightBytes is never negative, whatever totalBytes a start frame
\* declares.
C10_InflightNonNegative == inflightBytes >= 0

\* C11: with the same maxInvokeResultBytes and maxInflightBytes handed to
\* every start call, inflightBytes never exceeds maxInflightBytes and no
\* transfer in the table has totalBytes above maxInvokeResultBytes.
C11_WithinLimits ==
  /\ inflightBytes <= MaxInflightBytes
  /\ \A i \in 1..Len(invokeTransfers) :
       invokeTransfers[i].totalBytes <= MaxInvokeResultBytes

RECURSIVE SumLen(_)
SumLen(chunks) == IF chunks = <<>> THEN 0 ELSE Len(Head(chunks)) + SumLen(Tail(chunks))

\* The step settles request id with one more call, a resolve with ok:true.
SettlesOk(id) ==
  /\ Len(settled'[id]) = Len(settled[id]) + 1
  /\ LastOutcome(settled'[id]).kind = "resolve"
  /\ LastOutcome(settled'[id]).ok

C13_ChunksInOrder ==
  /\ \A p \in ChunkFrames :
       LET r == HandleInvokeResultChunk(Cur, p)
       IN r.ret = "ok" =>
            /\ p.id \in TransferIds(invokeTransfers)
            /\ LET t == TransferOf(invokeTransfers, p.id)
               IN /\ p.index = t.nextIndex
                  /\ p.index < t.chunkCount
                  /\ p.id \in TransferIds(r.st.invokeTransfers) =>
                       LET u == TransferOf(r.st.invokeTransfers, p.id)
                       IN /\ u.nextIndex = t.nextIndex + 1
                          /\ u.chunks = Append(t.chunks, Base64Decode(p.data))
  /\ \A i \in 1..Len(invokeTransfers) :
       Len(invokeTransfers[i].chunks) = invokeTransfers[i].nextIndex

\* C13 witness: a transfer of two chunks has accepted chunk 0 and waits for
\* chunk 1.
C13_Witness ==
  \E i \in 1..Len(invokeTransfers) :
    /\ invokeTransfers[i].chunkCount = 2
    /\ invokeTransfers[i].nextIndex = 1
    /\ Len(invokeTransfers[i].chunks) = 1

\* The PendingInvoke of a frame's id belongs to the frame's node.
OwningPending(p) ==
  /\ p.id \in DOMAIN pendingInvokes
  /\ pendingInvokes[p.id].nodeId = p.nodeId

\* The handler's result r for frame p, when it is a failure, has resolved the
\* invoke once more with INVALID_REQUEST and the failure's message and left no
\* transfer of that id.
RejectedResolves(p, r) ==
  r.ret # "ok" =>
    /\ r.st.settled[p.id] =
         Append(settled[p.id],
                Resolved(FALSE, "undefined", NullJSON,
                         InvalidRequest(FailureMessage(r.ret))))
    /\ p.id \notin TransferIds(r.st.invokeTransfers)

StartReasonInOrder(p) ==
  IF ~OwningPending(p) THEN "unknown-invoke-id"
  ELSE IF p.id \in TransferIds(invokeTransfers) THEN "chunk-out-of-order"
  ELSE IF ~(p.totalBytes <= p.maxInvokeResultBytes) THEN "payload-too-large"
  ELSE IF ~(inflightBytes + p.totalBytes <= p.maxInflightBytes) THEN "payload-too-large"
  ELSE "ok"

C16_TooLargeKeepsBudget ==
  \A p \in StartFrames :
    LET r == StartInvokeResultTransfer(Cur, p)
    IN r.ret = "payload-too-large" =>
         /\ r.st.inflightBytes = inflightBytes
         /\ r.st.invokeTransfers = invokeTransfers
         /\ OwningPending(p)
         /\ r.st.settled[p.id] =
              Append(settled[p.id],
                     Resolved(FALSE, "undefined", NullJSON,
                              InvalidRequest("payload too large")))

\* C16 witness: a start frame has just been rejected as payload-too-large while
\* another transfer holds part of the budget, and its invoke is resolved with
\* INVALID_REQUEST.
C16_Witness ==
  /\ lastOp.op = "startInvokeResultTransfer"
  /\ lastOp.ret = "payload-too-large"
  /\ inflightBytes > 0
  /\ invokeTransfers # <<>>
  /\ settled[lastOp.id] =
       <<Resolved(FALSE, "undefined", NullJSON, InvalidRequest("payload too large"))>>

\* C17: a step in which the timer of invoke id fires removes the PendingInvoke
\* of id, removes the transfer of id if there is one and lowers inflightBytes by
\* that transfer's totalBytes (leaves it alone if there is none), and resolves
\* the caller with ok false and the TIMEOUT error.
C17_TimeoutTearsDown ==
  [][\A id \in RequestIds :
       TimerFire(id) =>
         /\ id \notin DOMAIN pendingInvokes'
         /\ id \notin TransferIds(invokeTransfers')
         /\ inflightBytes' =
              IF id \in TransferIds(invokeTransfers)
              THEN inflightBytes - TransferOf(invokeTransfers, id).totalBytes
              ELSE inflightBytes
         /\ Len(settled'[id]) = Len(settled[id]) + 1
         /\ LastOutcome(settled'[id]).kind = "resolve"
         /\ ~LastOutcome(settled'[id]).ok
         /\ LastOutcome(settled'[id]).error.code = "TIMEOUT"]_vars

\* C18: under SpecLive (armed timers fire), every invoke that has a
\* PendingInvoke is eventually resolved: its caller's promise is fulfilled with
\* a NodeInvokeResult, whatever frames the nodes send.
C18_EventuallyResolved ==
  \A id \in RequestIds :
    (id \in DOMAIN pendingInvokes) ~>
      (Len(settled[id]) > 0 /\ LastOutcome(settled[id]).kind = "resolve")

\* What the timers do guarantee: a PendingInvoke always has its timer armed, and
\* the caller's promise is eventually settled (fulfilled or rejected) and the
\* PendingInvoke gone.
PendingHasTimer == DOMAIN pendingInvokes \subseteq timers

InvokeEventuallySettled ==
  \A id \in RequestIds :
    (id \in DOMAIN pendingInvokes) ~>
      (id \notin DOMAIN pendingInvokes /\ Len(settled[id]) > 0)

\* Ids that some table, timer or settled promise of the registry knows.
KnownIds ==
  DOMAIN pendingInvokes \cup timers \cup TransferIds(invokeTransfers)
    \cup {id \in RequestIds : settled[id] # <<>>}

\* C19: a step of invoke enters a PendingInvoke and arms a timer only when the
\* node is registered and the send of the request frame succeeded; with the node
\* absent it returns NOT_CONNECTED, with a send that raised it returns
\* UNAVAILABLE and "failed to send invoke to node", and in both cases the
\* invocation table, the timers, the transfer table, inflightBytes and every
\* caller's outcome are unchanged; nothing is known of a request id before an
\* invoke has sent its frame.
C19_PendingOnlyAfterSend ==
  [][/\ \A n \in NodeIds, cmd \in Commands, sendOk \in BOOLEAN :
          Invoke(n, cmd, sendOk) =>
            /\ (n \notin DOMAIN nodesById) =>
                 /\ lastOp'.ret = "NOT_CONNECTED"
                 /\ UNCHANGED <<pendingInvokes, timers, invokeTransfers, inflightBytes,
                                settled, nextRequestId>>
            /\ (n \in DOMAIN nodesById /\ ~sendOk) =>
                 /\ lastOp'.ret = "UNAVAILABLE"
                 /\ lastOp'.message = "failed to send invoke to node"
                 /\ UNCHANGED <<pendingInvokes, timers, invokeTransfers, inflightBytes,
                                settled, nextRequestId>>
            /\ (n \in DOMAIN nodesById /\ sendOk) =>
                 /\ DOMAIN pendingInvokes' = DOMAIN pendingInvokes \cup {nextRequestId}
                 /\ timers' = timers \cup {nextRequestId}
                 /\ nextRequestId \notin KnownIds
                 /\ UNCHANGED <<invokeTransfers, inflightBytes, settled>>
     /\ KnownIds' \subseteq 1..(nextRequestId' - 1)]_vars

\* C19 witness: an invoke to a registered node has just failed to send and
\* returned UNAVAILABLE, with no invoke pending.
C19_Witness ==
  /\ lastOp.op = "invoke"
  /\ lastOp.ret = "UNAVAILABLE"
  /\ lastOp.nodeId \in DOMAIN nodesById
  /\ pendingInvokes = EmptyMap
  /\ timers = {}

\* C20: in every state, handleInvokeResult for a frame whose id has no
\* PendingInvoke returns false and leaves the invocation table, the timers, the
\* transfer table, inflightBytes and every caller's outcome as they are.
C20_UnknownIdIsNoOp ==
  \A p \in ResultFrames :
    p.id \notin DOMAIN pendingInvokes =>
      LET r == HandleInvokeResult(Cur, p)
      IN /\ r.ret = FALSE
         /\ r.st.pendingInvokes = pendingInvokes
         /\ r.st.timers = timers
         /\ r.st.invokeTransfers = invokeTransfers
         /\ r.st.inflightBytes = inflightBytes
         /\ r.st.settled = settled

\* C20 witness: a result frame has just been refused for an invoke that was
\* already settled, and the caller still has that one outcome.
C20_Witness ==
  /\ lastOp.op = "handleInvokeResult"
  /\ lastOp.ret = "false"
  /\ lastOp.id \notin DOMAIN pendingInvokes
  /\ Len(settled[lastOp.id]) = 1

\* In the handler's result r for a frame of node p.nodeId, the invoke j of
\* another node is as it was: still pending for the same node and command, its
\* timer armed, its caller's outcomes the same, and its transfer, if it has
\* one, unchanged.
OtherNodeUntouched(p, r, j) ==
  /\ (j \in DOMAIN pendingInvokes /\ pendingInvokes[j].nodeId # p.nodeId) =>
       /\ j \in DOMAIN r.st.pendingInvokes
       /\ r.st.pendingInvokes[j] = pendingInvokes[j]
       /\ (j \in timers) = (j \in r.st.timers)
       /\ r.st.settled[j] = settled[j]
       /\ (j \in TransferIds(invokeTransfers)) = (j \in TransferIds(r.st.invokeTransfers))
  /\ (j \in TransferIds(invokeTransfers)
        /\ TransferOf(invokeTransfers, j).nodeId # p.nodeId) =>
       /\ j \in TransferIds(r.st.invokeTransfers)
       /\ TransferOf(r.st.invokeTransfers, j) = TransferOf(invokeTransfers, j)
       /\ r.st.settled[j] = settled[j]

\* A frame that names the request id of another node's invoke changes nothing.
SpoofIsNoOp(p, r) ==
  (p.id \in DOMAIN pendingInvokes /\ pendingInvokes[p.id].nodeId # p.nodeId) =>
    r.st = Cur

\* C21: in every state, no result, start, chunk or abort frame carrying nodeId
\* N resolves, removes or modifies a PendingInvoke or a transfer of another
\* node; a frame that uses another node's request id leaves the whole registry
\* as it was.
C21_NoCrossNodeEffect ==
  /\ \A p \in ResultFrames : \A j \in RequestIds :
       LET r == HandleInvokeResult(Cur, p)
       IN OtherNodeUntouched(p, r, j) /\ SpoofIsNoOp(p, r)
  /\ \A p \in StartFrames : \A j \in RequestIds :
       LET r == StartInvokeResultTransfer(Cur, p)
       IN OtherNodeUntouched(p, r, j) /\ SpoofIsNoOp(p, r)
  /\ \A p \in ChunkFrames : \A j \in RequestIds :
       LET r == HandleInvokeResultChunk(Cur, p)
       IN OtherNodeUntouched(p, r, j) /\ SpoofIsNoOp(p, r)
  /\ \A p \in AbortFrames : \A j \in RequestIds :
       LET r == AbortInvokeResultTransfer(Cur, p)
       IN OtherNodeUntouched(p, r, j) /\ SpoofIsNoOp(p, r)

\* C21 witness: a result frame of one node has just been refused for the
\* request id of an invoke of another node, which is still pending with its
\* transfer.
C21_Witness ==
  /\ lastOp.op = "handleInvokeResult"
  /\ lastOp.ret = "false"
  /\ lastOp.id \in DOMAIN pendingInvokes
  /\ pendingInvokes[lastOp.id].nodeId # lastOp.nodeId
  /\ lastOp.id \in TransferIds(invokeTransfers)
  /\ settled[lastOp.id] = <<>>

\* C22: in every state and for every result frame, handleInvokeResult returns
\* true exactly when the PendingInvoke of the frame's id belongs to the frame's
\* node; it then cancels the timer, removes the pending entry, removes the
\* transfer of that id and lowers inflightBytes by its totalBytes, and resolves
\* the caller once more with the frame's ok, payload, payloadJSON and error (an
\* absent payloadJSON or error delivered as null); otherwise it changes nothing.
C22_ResultResolvesMatching ==
  \A p \in ResultFrames :
    LET r == HandleInvokeResult(Cur, p)
    IN /\ r.ret = OwningPending(p)
       /\ ~OwningPending(p) => r.st = Cur
       /\ OwningPending(p) =>
            /\ p.id \notin r.st.timers
            /\ p.id \notin DOMAIN r.st.pendingInvokes
            /\ p.id \notin TransferIds(r.st.invokeTransfers)
            /\ r.st.inflightBytes =
                 IF p.id \in TransferIds(invokeTransfers)
                 THEN inflightBytes - TransferOf(invokeTransfers, p.id).totalBytes
                 ELSE inflightBytes
            /\ r.st.settled[p.id] =
                 Append(settled[p.id],
                        Resolved(p.ok, p.payload, NullishJSON(p.payloadJSON),
                                 NullishError(p.error)))

\* The transfer of a frame's id belongs to the frame's node.
OwningTransfer(p) ==
  /\ p.id \in TransferIds(invokeTransfers)
  /\ TransferOf(invokeTransfers, p.id).nodeId = p.nodeId

\* C23: in every state and for every abort frame: if the PendingInvoke of its
\* id belongs to its node, abortInvokeResultTransfer resolves that invoke once
\* more with ok false and the frame's error (UNAVAILABLE / "node invoke
\* aborted" when the frame has none), leaves no pending entry and no transfer
\* of that id, and returns true; if not, it returns false, resolves no caller
\* and leaves the invocation table alone, and removes exactly the transfer of
\* that id and node, lowering inflightBytes by its totalBytes, if there is one.
C23_AbortResolvesOrReclaims ==
  \A p \in AbortFrames :
    LET r == AbortInvokeResultTransfer(Cur, p)
    IN IF OwningPending(p)
       THEN /\ r.ret = TRUE
            /\ r.st.settled[p.id] =
                 Append(settled[p.id],
                        Resolved(FALSE, "undefined", NullJSON,
                                 IF p.error = UndefinedError THEN AbortedError
                                 ELSE p.error))
            /\ p.id \notin DOMAIN r.st.pendingInvokes
            /\ p.id \notin TransferIds(r.st.invokeTransfers)
       ELSE /\ r.ret = FALSE
            /\ r.st.settled = settled
            /\ r.st.pendingInvokes = pendingInvokes
            /\ r.st.timers = timers
            /\ IF OwningTransfer(p)
               THEN /\ r.st.invokeTransfers = TransferRemove(invokeTransfers, p.id)
                    /\ r.st.inflightBytes =
                         inflightBytes - TransferOf(invokeTransfers, p.id).totalBytes
               ELSE r.st = Cur

\* C23 witness: an abort frame without an error has just resolved its invoke
\* with the default UNAVAILABLE error and returned true.
C23_Witness ==
  /\ lastOp.op = "abortInvokeResultTransfer"
  /\ lastOp.ret = "true"
  /\ LastOutcome(settled[lastOp.id]) =
       Resolved(FALSE, "undefined", NullJSON, AbortedError)
  /\ lastOp.id \notin TransferIds(invokeTransfers)

\* C24: in every state, every transfer in the transfer table has
\* 0 <= nextIndex <= chunkCount and bytesReceived <= totalBytes.
C24_TransferWithinDeclared ==
  \A i \in 1..Len(invokeTransfers) :
    /\ 0 <= invokeTransfers[i].nextIndex
    /\ invokeTransfers[i].nextIndex <= invokeTransfers[i].chunkCount
    /\ invokeTransfers[i].bytesReceived <= invokeTransfers[i].totalBytes

\* C25: in every state, each transfer in the transfer table has a PendingInvoke
\* of the same id and the same nodeId, and no two transfers share an id.
C25_TransferHasPending ==
  /\ \A i \in 1..Len(invokeTransfers) :
       /\ invokeTransfers[i].id \in DOMAIN pendingInvokes
       /\ pendingInvokes[invokeTransfers[i].id].nodeId = invokeTransfers[i].nodeId
  /\ \A i, j \in 1..Len(invokeTransfers) :
       invokeTransfers[i].id = invokeTransfers[j].id => i = j

\* C25 witness: the timer of one invoke has just fired, removing it, while the
\* transfer of another invoke is still in the table with its PendingInvoke.
C25_Witness ==
  /\ lastOp.op = "timeout"
  /\ lastOp.id \notin DOMAIN pendingInvokes
  /\ lastOp.id \notin TransferIds(invokeTransfers)
  /\ invokeTransfers # <<>>
  /\ invokeTransfers[1].id \in DOMAIN pendingInvokes

\* C26: in every state, the armed timers are exactly the request ids of the
\* invocation table (one timer per entry, none without an entry), and no armed
\* timer belongs to an invoke whose caller already has an outcome.
C26_TimerIffPending ==
  /\ timers = DOMAIN pendingInvokes
  /\ \A id \in timers : settled[id] = <<>>

\* C26 witness: a reply has just resolved one invoke, whose timer is cancelled,
\* while another invoke is pending with its timer armed.
C26_Witness ==
  /\ lastOp.op = "handleInvokeResult"
  /\ lastOp.ret = "true"
  /\ lastOp.id \notin timers
  /\ Len(settled[lastOp.id]) = 1
  /\ timers # {}

\* C27: in every step of a request of requestExecHostViaSocket, resolve has
\* been called at most once, and exactly once as soon as the request is
\* settled; the socket is destroyed exactly when the request is settled; an
\* unsettled request has a timer armed; and once the request is settled no
\* exec-pending, exec-res, socket error or timer changes the resolved value or
\* anything else of the request.
C27_ResolvesExactlyOnce ==
  [][/\ Len(resolutions') <= 1
     /\ execSettled' = (Len(resolutions') = 1)
     /\ clientDestroyed' = execSettled'
     /\ ~execSettled' => armedTimers' # {}
     /\ execSettled =>
          UNCHANGED <<execSettled, pendingReceived, timer, armedTimers, timersCreated,
                      clientDestroyed, resolutions, onPendingCalls>>]_execVars

\* C27 witness: the request was resolved with the exec-res result after an
\* exec-pending, the socket is destroyed and no timer is armed.
C27_Witness ==
  /\ resolutions = <<RunResponse("run-result")>>
  /\ pendingReceived
  /\ execSettled
  /\ clientDestroyed
  /\ armedTimers = {}

\* The response an exec-res line resolves with.
ResponseOf(msg) ==
  IF msg.ok = TRUE /\ msg.payload # "undefined" THEN RunResponse(msg.payload)
  ELSE IF msg.ok = FALSE /\ msg.error # "undefined" THEN ErrorResponse(msg.error)
  ELSE NullResponse

\* The states of the client: Armed (unresolved, no exec-pending received) and
\* Pending (unresolved, exec-pending received).
Armed == ~execSettled /\ ~pendingReceived
Pending == ~execSettled /\ pendingReceived

\* C28: in every Armed state, an exec-pending line does not resolve the
\* request: it leaves exactly one timer armed, an extended one due
\* payload.timeoutMs (300,000 ms when absent) from now, calls onPending (when
\* given) with the payload, and makes the state Pending; and in every Pending
\* state, whatever the clock shows, an exec-res line resolves the request with
\* its result and not with the approval timeout.
C28_PendingExtendsDeadline ==
  /\ Armed =>
       \A msg \in ExecPendingLines :
         LET r == HandleLine(ExecCur, msg, now, hasOnPending)
             extended == IF msg.payload.timeoutMs = UndefinedMs
                         THEN 300000 ELSE msg.payload.timeoutMs
         IN /\ ~r.return
            /\ r.st.resolutions = <<>>
            /\ ~r.st.execSettled
            /\ r.st.pendingReceived
            /\ \E handle \in r.st.armedTimers :
                 /\ r.st.armedTimers = {handle}
                 /\ handle.kind = "extended"
                 /\ handle.at = now + extended
            /\ r.st.onPendingCalls =
                 IF hasOnPending THEN Append(onPendingCalls, msg.payload)
                 ELSE onPendingCalls
  /\ Pending =>
       \A msg \in ExecResLines :
         LET r == HandleLine(ExecCur, msg, now, hasOnPending)
         IN /\ r.st.resolutions = <<ResponseOf(msg)>>
            /\ r.st.resolutions # <<ApprovalTimeoutResponse>>

\* C28 witness: after an exec-pending that was passed to onPending, the base
\* deadline has passed and the request is resolved with the exec-res result.
C28_Witness ==
  /\ pendingReceived
  /\ onPendingCalls # <<>>
  /\ now > baseTimeoutMs
  /\ resolutions = <<RunResponse("run-result")>>

\* C29: in every Pending state a further exec-pending line is ignored: the
\* armed timer and its deadline stay the ones set by the first exec-pending, and
\* the request stays Pending.
C29_RepeatedPendingIgnored ==
  Pending =>
    \A msg \in ExecPendingLines :
      LET r == HandleLine(ExecCur, msg, now, hasOnPending)
      IN /\ {handle.at : handle \in r.st.armedTimers} = {handle.at : handle \in armedTimers}
         /\ r.st.pendingReceived
         /\ ~r.st.execSettled

\* C30: in every unresolved state, the expiry of the armed timer resolves the
\* request with null when no exec-pending was received (Armed) and with the
\* approval-timeout response when one was (Pending); and a request is resolved
\* with the approval-timeout response only if an exec-pending was received.
C30_ExpiryByState ==
  /\ ~execSettled =>
       \A handle \in armedTimers :
         LET st == TimerCallback([ExecCur EXCEPT !.armedTimers = @ \ {handle}], handle)
         IN st.resolutions =
              <<IF pendingReceived THEN ApprovalTimeoutResponse ELSE NullResponse>>
  /\ \A i \in 1..Len(resolutions) :
       resolutions[i] = ApprovalTimeoutResponse => pendingReceived

\* C30 witness: the extended timer has expired and the request is resolved with
\* the approval-timeout response.
C30_Witness ==
  /\ resolutions = <<ApprovalTimeoutResponse>>
  /\ pendingReceived
  /\ timer.kind = "extended"
  /\ now >= timer.at


\* C31: the exec-host client has at most one timer armed at any time, the armed
\* one is the one held in `timer`, and no timer is armed once the request is
\* resolved; an exec-pending line leaves exactly the extended timer it
\* installs, and an exec-res line leaves none.
C31_AtMostOneTimer ==
  /\ Cardinality(armedTimers) <= 1
  /\ armedTimers \subseteq {timer}
  /\ execSettled => armedTimers = {}
  /\ ~execSettled =>
       /\ \A msg \in ExecPendingLines :
            LET r == HandleLine(ExecCur, msg, now, hasOnPending)
            IN /\ r.st.armedTimers = {r.st.timer}
               /\ r.st.timer.kind = "extended"
               /\ r.st.timer \notin armedTimers
       /\ \A msg \in ExecResLines :
            HandleLine(ExecCur, msg, now, hasOnPending).st.armedTimers = {}

\* C31 witness: a second exec-pending has replaced the first extended timer
\* (three timers were created, one is armed), and later the request is resolved
\* by an exec-res with none armed.
C31_Witness ==
  /\ timersCreated >= 3
  /\ pendingReceived
  /\ execSettled
  /\ armedTimers = {}
  /\ Len(resolutions) = 1
  /\ resolutions[1].kind = "ok"


\* C32: when the socket errors or is closed before an exec-res was received,
\* in Armed and in Pending alike, that step resolves the request with null.
C32_ErrorOrCloseResolvesNull ==
  [][(~execSettled /\ (SocketError \/ SocketClose))
       => (execSettled' /\ resolutions' = <<NullResponse>>)]_execVars


\* C36: no transfer of the transfer table has nextIndex = chunkCount: a transfer
\* that has reached its chunk count, one accepted with chunkCount = 0 included,
\* has been completed and removed.
C36_NoTransferAtChunkCount ==
  \A i \in 1..Len(invokeTransfers) :
    invokeTransfers[i].nextIndex # invokeTransfers[i].chunkCount


\* The lines of a data event before its first exec-res line (all of them when
\* there is none), and whether it has one.
RECURSIVE LinesBeforeRes(_)
LinesBeforeRes(lines) ==
  IF lines = <<>> \/ Head(lines).type = "exec-res" THEN <<>>
  ELSE <<Head(lines)>> \o LinesBeforeRes(Tail(lines))

HasRes(lines) == \E i \in 1..Len(lines) : lines[i].type = "exec-res"

\* C37: once the request is resolved nothing has an effect any more: no step
\* taken in a resolved state calls onPending, arms or creates a timer or changes
\* the resolved value; and a data event that carries an exec-res line resolves
\* with that line's response and processes none of the lines after it, so that
\* what it leaves is what the lines before the exec-res line alone leave, with
\* the timer cancelled and the one resolution added.
C37_NoEffectAfterResolution ==
  /\ [][execSettled =>
          /\ onPendingCalls' = onPendingCalls
          /\ armedTimers' = armedTimers
          /\ timersCreated' = timersCreated
          /\ resolutions' = resolutions
          /\ execSettled']_execVars
  /\ [](~execSettled =>
          \A lines \in DataChunks :
            HasRes(lines) =>
              LET before == LinesBeforeRes(lines)
                  res == lines[Len(before) + 1]
                  r0 == OnData(ExecCur, before, now, hasOnPending)
                  r == OnData(ExecCur, lines, now, hasOnPending)
              IN /\ r.execSettled
                 /\ r.resolutions = <<ResponseOf(res)>>
                 /\ r.onPendingCalls = r0.onPendingCalls
                 /\ r.timersCreated = r0.timersCreated
                 /\ r.armedTimers = {}
                 /\ r.buffer = SubSeq(lines, Len(before) + 2, Len(lines)))

\* C37 witness: the request is resolved and an exec-pending line that followed
\* the exec-res line in the same data event is still in the buffer, with no
\* onPending call made and no timer armed.
C37_Witness ==
  /\ execSettled
  /\ buffer # <<>>
  /\ buffer[1].type = "exec-pending"
  /\ hasOnPending
  /\ onPendingCalls = <<>>
  /\ armedTimers = {}


\* The frames the node has handed to the channel for a request id, in order.
FramesOf(id) == SelectSeq(nodeFrames, LAMBDA f : f.params.id = id)

IsStartFrame(f) ==
  f.method = "node.invoke.result" /\ "payloadTransfer" \in DOMAIN f.params
IsChunkFrame(f) == f.method = "node.invoke.result.chunk"

\* An ok reply whose serialized frame exceeds the session's maxPayloadBytes.
Oversized(st, request, response) ==
  /\ response.ok
  /\ response.payloadJSON # UndefinedJSON
  /\ ShouldChunkInvokeResult(st, ResultParams(request, response))

\* C34: when the gateway has not advertised node.invoke.result.chunk, the node
\* answers an ok reply whose serialized frame exceeds maxPayloadBytes with the
\* direct node.invoke.result ok:false UNAVAILABLE "payload too large" and
\* sends nothing else for it after the channel replied; and a request answered
\* with that frame has no other frame, so no start and no chunk frame.
C34_OversizedWithoutChunking ==
  /\ ~supportsInvokeResultChunk =>
       \A request \in Requests, response \in Responses :
         Oversized(NodeCur, request, response) =>
           LET st == BeginSend(NodeCur, request, response)
           IN /\ st.nodeFrames = Append(nodeFrames, TooLargeFrame(request))
              /\ \A ok \in BOOLEAN :
                   LET done == ContinueSend(st, ok)
                   IN done.nodeFrames = st.nodeFrames /\ done.sending = NotSending
  /\ \A request \in Requests :
       (\E i \in 1..Len(nodeFrames) : nodeFrames[i] = TooLargeFrame(request))
         => FramesOf(request.id) = <<TooLargeFrame(request)>>

\* C34 witness: without the chunking capability and with the policy's
\* maxPayload, an ok reply with a payload was answered with the one
\* "payload too large" frame and the send is over.
C34_Witness ==
  /\ ~supportsInvokeResultChunk
  /\ maxPayloadBytes = PolicyMaxPayload
  /\ sending = NotSending
  /\ \E request \in Requests :
       /\ responses[request.id].ok
       /\ Len(responses[request.id].payloadJSON) = 2
       /\ FramesOf(request.id) = <<TooLargeFrame(request)>>


\* The registry with the invoke of a request pending on its node and nothing
\* else in progress.
GatewayPending(request) ==
  [pendingInvokes |-> MapSet(EmptyMap, request.id,
                             [nodeId |-> request.nodeId, command |-> "system.run"]),
   invokeTransfers |-> <<>>, inflightBytes |-> 0, timers |-> {request.id},
   settled |-> [id \in RequestIds |-> <<>>]]

\* The call the gateway makes for a chunked-start frame: the fields of its
\* payloadTransfer and the gateway's limits (the wire form has no chunkBytes,
\* which the registry only stores).
StartParamsOf(frame) ==
  [id |-> frame.params.id, nodeId |-> frame.params.nodeId,
   totalBytes |-> frame.params.payloadTransfer.totalBytes,
   chunkBytes |-> 0,
   chunkCount |-> frame.params.payloadTransfer.chunkCount,
   sha256 |-> frame.params.payloadTransfer.sha256,
   maxInvokeResultBytes |-> MaxInvokeResultBytes,
   maxInflightBytes |-> MaxInflightBytes]

\* The registry after it was given the frames in order, and whether it
\* accepted every one of them.
RECURSIVE Receive(_, _)
Receive(st, frames) ==
  IF frames = <<>> THEN [st |-> st, accepted |-> TRUE]
  ELSE LET f == Head(frames)
           r == IF IsStartFrame(f) THEN StartInvokeResultTransfer(st, StartParamsOf(f))
                ELSE IF IsChunkFrame(f) THEN HandleInvokeResultChunk(st, f.params)
                ELSE LET d == HandleInvokeResult(st, f.params)
                     IN [st |-> d.st, ret |-> IF d.ret THEN "ok" ELSE "ignored"]
           rest == Receive(r.st, Tail(frames))
       IN [st |-> rest.st, accepted |-> r.ret = "ok" /\ rest.accepted]

\* C35: for every ok reply the node sends chunked and whose size is within
\* maxInvokeResultBytes, the first frame is a start frame carrying the
\* payload's length, the chunk count and the payload's sha256; the frames
\* after it are the chunks 0, 1, ... in ascending order, each carrying its
\* slice of the payload; and once all chunkCount chunks are sent, the registry
\* given these frames accepts every one and resolves the invoke ok:true with
\* the original payloadJSON.
C35_ChunkedDelivery ==
  \A request \in Requests :
    LET fs == FramesOf(request.id)
        payload == responses[request.id].payloadJSON
    IN (fs # <<>> /\ IsStartFrame(fs[1]) /\ Len(payload) <= MaxInvokeResultBytes) =>
         LET transfer == fs[1].params.payloadTransfer
         IN /\ transfer.totalBytes = Len(payload)
            /\ transfer.chunkCount >= 1
            /\ "sha256" \in DOMAIN transfer
            /\ transfer.sha256 = Sha256Hex(payload)
            /\ \A k \in 2..Len(fs) :
                 IsChunkFrame(fs[k]) =>
                   /\ fs[k].params.index = k - 2
                   /\ \A j \in 2..k : IsChunkFrame(fs[j])
                   /\ fs[k].params.bytes = Len(Base64Decode(fs[k].params.data))
            /\ (Len(fs) = 1 + transfer.chunkCount /\ IsChunkFrame(fs[Len(fs)])) =>
                 LET r == Receive(GatewayPending(request), fs)
                 IN /\ r.accepted
                    /\ r.st.settled[request.id] =
                         <<Resolved(TRUE, "undefined", payload, NullError)>>


\* A position (from 1) of the protected tail: fewer than keepLastAssistants
\* assistant messages come after it, so it is at or after the
\* keepLastAssistants-th assistant message counted from the end.
Protected(messages, p, keepLastAssistants) ==
  Cardinality({q \in (p + 1)..Len(messages) : messages[q].role = "assistant"})
    < keepLastAssistants

AssistantCount(messages) ==
  Cardinality({q \in 1..Len(messages) : messages[q].role = "assistant"})

\* C38: a call of pruneContextMessages leaves the caller's array as it was and
\* returns an array of the same length that differs from it only at
\* tool-result messages of prunable tools without image blocks that lie before
\* the protected tail, and there only in the content; with fewer than
\* keepLastAssistants assistant messages, or an estimated ratio below
\* softTrimRatio, it returns the caller's array itself. The extension hands
\* that result on: undefined for the same array, the new array otherwise.
C38_ProtectedTailAndInputKept ==
  (contextReturn.called /\ loaded # NotLoaded) =>
    LET input == contextReturn.messages
        r == PruneContextMessages(input, loaded, windowOverride, modelWindow)
        tokens == IF windowOverride > 0 THEN windowOverride ELSE modelWindow
        charWindow == tokens * CharsPerTokenEstimate
    IN /\ eventMessages = input
       /\ r.messages = input
       /\ Len(r.next) = Len(input)
       /\ \A p \in 1..Len(input) :
            /\ Protected(input, p, loaded.keepLastAssistants) => r.next[p] = input[p]
            /\ r.next[p] # input[p] =>
                 /\ input[p].role = "toolResult"
                 /\ input[p].toolName \in loaded.tools
                 /\ ~HasImageBlocks(input[p].content)
                 /\ [r.next[p] EXCEPT !.content = input[p].content] = input[p]
       /\ r.same => r.next = input
       /\ (\/ AssistantCount(input) < loaded.keepLastAssistants
           \/ (charWindow > 0 /\ RatioBelow(EstimateContextChars(input), charWindow,
                                            loaded.softTrimRatio)))
            => r.same
       /\ contextReturn.next = r.next
       /\ (contextReturn.result = "undefined") <=> r.same

\* C38 witness: of two equal prunable tool results the one before the last
\* assistant message was cleared and the one after it, in the protected tail,
\* was returned as it was.
C38_Witness ==
  /\ contextReturn.called
  /\ contextReturn.result = "messages"
  /\ loaded # NotLoaded
  /\ Len(contextReturn.messages) = 3
  /\ contextReturn.messages[1] = contextReturn.messages[3]
  /\ contextReturn.messages[2].role = "assistant"
  /\ contextReturn.next[1].content = <<TextBlock(loaded.hardClear.placeholder)>>
  /\ contextReturn.next[3] = contextReturn.messages[3]
  /\ eventMessages = contextReturn.messages


\* C33: an invoke whose node has signalled that the command awaits approval
\* never ends with the generic TIMEOUT error: when its deadline passes while
\* it is pending, it resolves with AWAITING_NODE_APPROVAL instead.
C33_ApprovalTimeoutCode ==
  \A id \in awaitingApproval :
    \A i \in 1..Len(settled[id]) : settled[id][i].error.code # "TIMEOUT"
====
